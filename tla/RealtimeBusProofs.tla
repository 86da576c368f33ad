------------------------- MODULE RealtimeBusProofs --------------------------
(***************************************************************************)
(* Proofs about the realtime bus, for every number of subscriptions, of    *)
(* slots and of publications, and every queue capacity; and about parts    *)
(* MCEvidence runs beside it: the lock on a learning baseline, the         *)
(* baselines in PostgreSQL, the opening of a database, the suite runner of *)
(* the command line, the changes counted between two runs, what a reader   *)
(* is told about a finding, and the gate over repeated runs.               *)
(***************************************************************************)
EXTENDS MCEvidence, SequenceTheorems, FiniteSetTheorems, WellFoundedInduction, TLAPS

Labels == {"none", "handshake", "streaming", "writing", "leaving", "done"}

TypeOK ==
    /\ closed \in BOOLEAN
    /\ nextID \in 0..MaxSubscriptions
    /\ subscribers \in SUBSET Ids
    /\ filter \in [Ids -> Scopes]
    /\ queue \in [Ids -> Seq(Nat)]
    /\ ended \in [Ids -> Nat]
    /\ handler \in [Ids -> Labels]
    /\ hand \in [Ids -> Seq(Nat)]
    /\ watcher \in [Ids -> {"none", "waiting", "gone"}]
    /\ cancelled \in SUBSET Ids
    /\ published \in Seq(Scopes)
    /\ since \in [Ids -> Nat]
    /\ written \in [Ids -> Seq(Nat)]

\* A stream of events, against the set of those it is for.
Increasing(t)  == \A i, j \in 1..Len(t) : i < j => t[i] < t[j]
Within(t, W)   == \A i \in 1..Len(t) : t[i] \in W
NoGap(t, W)    == \A i \in 1..Len(t) : \A n \in W : n < t[i] => \E j \in 1..i : t[j] = n
Covers(t, W)   == \A n \in W : \E i \in 1..Len(t) : t[i] = n

\* A stream sent w, sending h, queueing q, with its handler at label; it is
\* registered or not.  Until its handler gives up, nothing it took has a gap.
StreamOK(W, w, h, q, label, registered) ==
    /\ Increasing(w \o h \o q)
    /\ Within(w \o h \o q, W)
    /\ NoGap(w, W)
    /\ label \notin {"leaving", "done"} => NoGap(w \o h \o q, W)
    /\ registered /\ label # "leaving" => Covers(w \o h \o q, W)

\* An id not given yet has nothing, no stream is for events of the future, and
\* a handler that writes nothing holds no event.
SlotOK(s) ==
    /\ since[s] <= Len(published)
    /\ s > nextID => /\ handler[s] = "none" /\ watcher[s] = "none" /\ ended[s] = 0
                     /\ written[s] = <<>> /\ hand[s] = <<>> /\ queue[s] = <<>>
    /\ handler[s] # "writing" => hand[s] = <<>>

\* The inductive invariant.
BusInv ==
    /\ TypeOK
    /\ BusBounded
    /\ \A s \in Ids :
          /\ SlotOK(s)
          /\ StreamOK(Wanted(s), written[s], hand[s], queue[s], handler[s], s \in subscribers)

-----------------------------------------------------------------------------
(* Streams as values. *)

\* What a stream has taken, element by element.
LEMMA TakenElements ==
  ASSUME NEW w \in Seq(Nat), NEW h \in Seq(Nat), NEW q \in Seq(Nat)
  PROVE  /\ w \o h \o q \in Seq(Nat)
         /\ Len(w \o h \o q) = Len(w) + Len(h) + Len(q)
         /\ \A i \in 1..Len(w) : (w \o h \o q)[i] = w[i]
         /\ \A i \in 1..Len(h) : (w \o h \o q)[Len(w) + i] = h[i]
         /\ \A i \in 1..Len(q) : (w \o h \o q)[Len(w) + Len(h) + i] = q[i]
  <1> DEFINE u == w \o h
             Joined(x, y) ==
               /\ x \o y \in Seq(Nat) /\ Len(x \o y) = Len(x) + Len(y)
               /\ \A i \in 1..Len(x) + Len(y) :
                     (x \o y)[i] = IF i <= Len(x) THEN x[i] ELSE y[i - Len(x)]
  <1>0. ASSUME NEW x \in Seq(Nat), NEW y \in Seq(Nat) PROVE Joined(x, y)
    BY ConcatProperties
  <1>1. /\ u \in Seq(Nat) /\ Len(u) = Len(w) + Len(h)
        /\ \A i \in 1..Len(w) + Len(h) : u[i] = IF i <= Len(w) THEN w[i] ELSE h[i - Len(w)]
    BY <1>0
  <1> HIDE DEF u, Joined
  <1> DEFINE t == u \o q
  <1>2. /\ t \in Seq(Nat) /\ Len(t) = Len(u) + Len(q)
        /\ \A i \in 1..Len(u) + Len(q) : t[i] = IF i <= Len(u) THEN u[i] ELSE q[i - Len(u)]
    BY <1>0, <1>1 DEF Joined
  <1>3. PICK a \in Nat, b \in Nat, d \in Nat : a = Len(w) /\ b = Len(h) /\ d = Len(q)
    OBVIOUS
  <1> HIDE DEF t
  <1>4. /\ \A i \in 1..(a + b) : u[i] = IF i <= a THEN w[i] ELSE h[i - a]
        /\ \A i \in 1..(a + b + d) : t[i] = IF i <= a + b THEN u[i] ELSE q[i - (a + b)]
    BY <1>1, <1>2, <1>3
  <1>5. ASSUME NEW i \in 1..a PROVE t[i] = w[i]
    <2>1. i \in 1..(a + b) /\ i \in 1..(a + b + d) /\ i <= a /\ i <= a + b
      OBVIOUS
    <2>. QED
      BY <1>4, <2>1
  <1>6. ASSUME NEW i \in 1..b PROVE t[a + i] = h[i]
    <2>1. PICK j \in 1..(a + b) : /\ j = a + i /\ ~(j <= a) /\ j - a = i
                                  /\ j \in 1..(a + b + d) /\ j <= a + b
      OBVIOUS
    <2>2. t[j] = u[j] /\ u[j] = h[j - a]
      BY <1>4, <2>1
    <2>. QED
      BY <2>1, <2>2
  <1>7. ASSUME NEW i \in 1..d PROVE t[a + b + i] = q[i]
    <2>1. PICK j \in 1..(a + b + d) : j = a + b + i /\ ~(j <= a + b) /\ j - (a + b) = i
      OBVIOUS
    <2>2. t[j] = q[j - (a + b)]
      BY <1>4, <2>1
    <2>. QED
      BY <2>1, <2>2
  <1>. QED
    BY <1>1, <1>2, <1>3, <1>5, <1>6, <1>7 DEF t, u

\* Taking an event from the queue, or having written it, moves it along the
\* stream and changes nothing of the whole; an event queued goes at its end.
LEMMA TakenMoves ==
  ASSUME NEW w \in Seq(Nat), NEW h \in Seq(Nat), NEW q \in Seq(Nat), NEW e \in Nat
  PROVE  /\ q # <<>> => w \o <<Head(q)>> \o Tail(q) = w \o <<>> \o q
         /\ (w \o h) \o <<>> \o q = w \o h \o q
         /\ w \o h \o Append(q, e) = Append(w \o h \o q, e)
  <1>1. ASSUME q # <<>> PROVE w \o <<Head(q)>> \o Tail(q) = w \o <<>> \o q
    <2>1. /\ Len(q) \in Nat /\ Len(q) # 0 /\ Head(q) = q[1] /\ Head(q) \in Nat
          /\ Tail(q) \in Seq(Nat) /\ <<Head(q)>> \in Seq(Nat)
      BY <1>1, HeadTailProperties
    <2>2. SubSeq(q, 1, Len(q)) = <<q[1]>> \o SubSeq(q, 2, Len(q))
      BY <2>1, SubSeqRecursiveFirst
    <2>3. Tail(q) = SubSeq(q, 2, Len(q)) /\ SubSeq(q, 1, Len(q)) = q
      BY <1>1, TailIsSubSeq, SubSeqFull
    <2>4. q = <<Head(q)>> \o Tail(q)
      BY <2>1, <2>2, <2>3
    <2>5. w \o <<Head(q)>> \o Tail(q) = w \o (<<Head(q)>> \o Tail(q))
      BY <2>1, ConcatAssociative, SMTT(30)
    <2>6. w \o <<>> \o q = w \o q
      BY ConcatEmptySeq
    <2>. QED
      BY <2>4, <2>5, <2>6
  <1>2. (w \o h) \o <<>> \o q = w \o h \o q
    BY ConcatProperties, ConcatEmptySeq
  <1>3. w \o h \o Append(q, e) = Append(w \o h \o q, e)
    <2> DEFINE u == w \o h
    <2>1. u \in Seq(Nat) /\ u \o q \in Seq(Nat) /\ <<e>> \in Seq(Nat)
      BY ConcatProperties
    <2> HIDE DEF u
    <2>2. Append(q, e) = q \o <<e>> /\ Append(u \o q, e) = (u \o q) \o <<e>>
      BY <2>1, AppendIsConcat
    <2>3. (u \o q) \o <<e>> = u \o (q \o <<e>>)
      BY <2>1, ConcatAssociative, SMTT(30)
    <2>. QED
      BY <2>2, <2>3 DEF u
  <1>. QED
    BY <1>1, <1>2, <1>3

\* An event nobody was given yet leaves the streams that do not take it without
\* a gap, whether they are for it or not.
LEMMA NewEvent ==
  ASSUME NEW t \in Seq(Nat), NEW m \in Nat, NEW W \in SUBSET (1..m), NEW V \in SUBSET (1..(m + 1)),
         W \subseteq V, V \subseteq W \cup {m + 1}, Within(t, W)
  PROVE  Within(t, V) /\ (NoGap(t, W) => NoGap(t, V))
  <1>1. Within(t, V)
    BY DEF Within
  <1>2. ASSUME NoGap(t, W), NEW i \in 1..Len(t), NEW n \in V, n < t[i]
        PROVE  \E j \in 1..i : t[j] = n
    <2>1. t[i] \in 1..m
      BY DEF Within
    <2>2. n \in W
      BY <1>2, <2>1
    <2>. QED
      BY <1>2, <2>2 DEF NoGap
  <1>. QED
    BY <1>1, <1>2 DEF NoGap

\* The stream that takes it goes on, and misses nothing if it had not before.
LEMMA TakesEvent ==
  ASSUME NEW t \in Seq(Nat), NEW m \in Nat, NEW W \in SUBSET (1..m), Increasing(t), Within(t, W)
  PROVE  LET V == W \cup {m + 1}
             u == Append(t, m + 1)
         IN /\ Increasing(u) /\ Within(u, V)
            /\ Covers(t, W) => Covers(u, V) /\ NoGap(u, V)
  <1> DEFINE V == W \cup {m + 1}
             u == Append(t, m + 1)
             l == Len(t)
  <1>1. /\ u \in Seq(Nat) /\ Len(u) = l + 1 /\ l \in Nat /\ u[l + 1] = m + 1
        /\ \A i \in 1..l : u[i] = t[i] /\ t[i] \in 1..m /\ t[i] \in W
    BY AppendProperties DEF Within
  <1> HIDE DEF u, l
  <1>2. ASSUME NEW i \in 1..Len(u), NEW j \in 1..Len(u), i < j PROVE u[i] < u[j]
    <2>1. i \in 1..l
      BY <1>1, <1>2
    <2>2. CASE j = l + 1
      BY <1>1, <2>1, <2>2
    <2>3. CASE j # l + 1
      <3>1. j \in 1..l
        BY <1>1, <2>3
      <3>. QED
        BY <1>1, <1>2, <2>1, <3>1 DEF Increasing, l
    <2>. QED
      BY <2>2, <2>3
  <1>3. Increasing(u)
    BY <1>2 DEF Increasing
  <1>4. ASSUME NEW i \in 1..Len(u) PROVE u[i] \in V
    <2>1. i \in 1..l \/ i = l + 1
      BY <1>1
    <2>. QED
      BY <1>1, <2>1
  <1>5. ASSUME Covers(t, W), NEW n \in V PROVE \E i \in 1..Len(u) : u[i] = n
    <2>1. CASE n \in W
      <3>1. PICK i \in 1..l : t[i] = n
        BY <1>5, <2>1 DEF Covers, l
      <3>. QED
        BY <1>1, <3>1
    <2>2. CASE n = m + 1
      BY <1>1, <2>2
    <2>. QED
      BY <2>1, <2>2
  <1>6. ASSUME Covers(t, W), NEW i \in 1..Len(u), NEW n \in V, n < u[i]
        PROVE  \E j \in 1..i : u[j] = n
    <2>1. PICK j \in 1..Len(u) : u[j] = n
      BY <1>5, <1>6
    <2>2. ~(i < j) /\ i \in Nat /\ j \in Nat
      BY <1>1, <1>2, <1>6, <2>1
    <2>. QED
      BY <1>1, <2>1, <2>2
  <1>7. Within(u, V)
    BY <1>4 DEF Within
  <1>8. Covers(t, W) => Covers(u, V) /\ NoGap(u, V)
    BY <1>5, <1>6 DEF Covers, NoGap
  <1>. QED
    BY <1>3, <1>7, <1>8 DEF u

\* What was sent is how the stream begins.
LEMMA SentPrefix ==
  ASSUME NEW w \in Seq(Nat), NEW h \in Seq(Nat), NEW q \in Seq(Nat), NEW W,
         NoGap(w \o h \o q, W)
  PROVE  NoGap(w \o h, W)
  <1> DEFINE t == w \o h \o q
             u == w \o h
  <1>1. u \in Seq(Nat) /\ Len(u) \in Nat /\ Len(q) \in Nat
    BY ConcatProperties
  <1>2. Len(t) = Len(u) + Len(q) /\ \A i \in 1..Len(u) : t[i] = u[i]
    BY <1>1, ConcatProperties
  <1>3. NoGap(t, W)
    OBVIOUS
  <1> HIDE DEF t, u
  <1>4. ASSUME NEW i \in 1..Len(u), NEW n \in W, n < u[i] PROVE \E j \in 1..i : u[j] = n
    <2>1. i \in 1..Len(t) /\ t[i] = u[i] /\ i \in Nat
      BY <1>1, <1>2
    <2>2. PICK j \in 1..i : t[j] = n
      BY <1>3, <1>4, <2>1 DEF NoGap
    <2>3. j \in 1..Len(u)
      BY <1>1, <2>1
    <2>. QED
      BY <1>2, <2>2, <2>3
  <1>5. NoGap(u, W)
    BY <1>4 DEF NoGap
  <1>. QED
    BY <1>5 DEF u

\* An event that is dropped leaves the rest in order.
LEMMA DropsEvent ==
  ASSUME NEW w \in Seq(Nat), NEW h \in Seq(Nat), NEW q \in Seq(Nat), NEW W,
         Increasing(w \o h \o q), Within(w \o h \o q, W)
  PROVE  Increasing(w \o <<>> \o q) /\ Within(w \o <<>> \o q, W)
  <1> DEFINE t == w \o h \o q
             u == w \o <<>> \o q
             a == Len(w)
             b == Len(h)
  <1>1. a \in Nat /\ b \in Nat /\ Len(q) \in Nat /\ <<>> \in Seq(Nat) /\ Len(<<>>) = 0
    OBVIOUS
  <1>2. /\ Len(t) = a + b + Len(q) /\ \A i \in 1..a : t[i] = w[i]
        /\ \A i \in 1..Len(q) : t[a + b + i] = q[i]
        /\ t \in Seq(Nat)
    BY TakenElements
  <1>3. /\ Len(u) = a + Len(q) /\ \A i \in 1..a : u[i] = w[i]
        /\ \A i \in 1..Len(q) : u[a + 0 + i] = q[i]
    BY <1>1, TakenElements
  <1> HIDE DEF t, u, a, b
  <1> DEFINE from(i) == IF i <= a THEN i ELSE i + b
  <1>4. ASSUME NEW i \in 1..Len(u) PROVE from(i) \in 1..Len(t) /\ u[i] = t[from(i)]
    <2>1. CASE i <= a
      BY <1>1, <1>2, <1>3, <2>1
    <2>2. CASE ~(i <= a)
      <3>1. i - a \in 1..Len(q)
        BY <1>1, <1>3, <2>2
      <3>2. u[a + 0 + (i - a)] = q[i - a] /\ t[a + b + (i - a)] = q[i - a]
        BY <1>2, <1>3, <3>1
      <3>3. a + 0 + (i - a) = i /\ a + b + (i - a) = i + b
        BY <1>1, <2>2
      <3>. QED
        BY <1>1, <1>2, <1>3, <2>2, <3>1, <3>2, <3>3, SMTT(30)
    <2>. QED
      BY <2>1, <2>2
  <1>5. ASSUME NEW i \in 1..Len(u), NEW j \in 1..Len(u), i < j PROVE from(i) < from(j)
    BY <1>1, <1>3, <1>5
  <1> HIDE DEF from
  <1>6. Increasing(u)
    BY <1>4, <1>5 DEF Increasing, t
  <1>7. Within(u, W)
    BY <1>4 DEF Within, t
  <1>. QED
    BY <1>6, <1>7 DEF u

\* What holds of all that was taken holds of what was sent.
LEMMA SentWithin ==
  ASSUME NEW w \in Seq(Nat), NEW h \in Seq(Nat), NEW q \in Seq(Nat), NEW W,
         Within(w \o h \o q, W)
  PROVE  Within(w, W)
  <1>1. /\ Len(w \o h \o q) = Len(w) + Len(h) + Len(q)
        /\ \A i \in 1..Len(w) : (w \o h \o q)[i] = w[i]
    BY TakenElements
  <1>2. Len(w) \in Nat /\ Len(h) \in Nat /\ Len(q) \in Nat
    OBVIOUS
  <1>. QED
    BY <1>1, <1>2 DEF Within

-----------------------------------------------------------------------------
(* The bus. *)

\* Streams that leave are finished once; the others stay as they were.
LEMMA FinishOK ==
  ASSUME BusInv, NEW S \in SUBSET subscribers, Finish(S), UNCHANGED nextID
  PROVE  /\ subscribers' \in SUBSET subscribers /\ subscribers' \in SUBSET Ids
         /\ S \cap subscribers' = {}
         /\ ended' \in [Ids -> Nat]
         /\ Cardinality(subscribers') <= maxSubscribers
         /\ \A s \in Ids : /\ ended'[s] <= 1
                           /\ s \in subscribers' <=> (s <= nextID /\ ended'[s] = 0)
                           /\ s > nextID => ended'[s] = 0
  <1>1. /\ subscribers' = subscribers \ S
        /\ ended' = [s \in Ids |-> IF s \in S THEN ended[s] + 1 ELSE ended[s]]
        /\ subscribers \in SUBSET Ids /\ ended \in [Ids -> Nat] /\ nextID \in Nat
    BY BusAssumption DEF Finish, BusInv, TypeOK
  <1>2. IsFiniteSet(subscribers) /\ Cardinality(subscribers) \in Nat
    <2>1. IsFiniteSet(Ids)
      BY FS_Interval, BusAssumption DEF Ids
    <2>. QED
      BY <1>1, <2>1, FS_Subset, FS_CardinalityType
  <1>3. Cardinality(subscribers') <= Cardinality(subscribers) /\ Cardinality(subscribers') \in Nat
    BY <1>1, <1>2, FS_Subset, FS_CardinalityType
  <1>4. Cardinality(subscribers') <= maxSubscribers
    BY <1>2, <1>3, BusAssumption DEF BusInv, BusBounded
  <1>5. ASSUME NEW s \in Ids
        PROVE  /\ ended'[s] <= 1 /\ ended'[s] \in Nat
               /\ s \in subscribers' <=> (s <= nextID /\ ended'[s] = 0)
               /\ s > nextID => ended'[s] = 0
    <2>1. /\ s \in subscribers <=> (s <= nextID /\ ended[s] = 0)
          /\ ended[s] <= 1 /\ ended[s] \in Nat /\ s \in Nat /\ (s > nextID => ended[s] = 0)
      BY <1>1, BusAssumption DEF BusInv, BusBounded, SlotOK, Ids
    <2>. QED
      BY <1>1, <2>1
  <1>. QED
    BY <1>1, <1>4, <1>5

\* A publication: whom it is for.
LEMMA WantedGrows ==
  ASSUME BusInv, NEW scope \in Scopes, published' = Append(published, scope),
         UNCHANGED <<since, filter>>, NEW s \in Ids
  PROVE  /\ Wanted(s) \in SUBSET (1..Len(published))
         /\ Wanted(s)' = IF Matches(filter[s], scope) THEN Wanted(s) \cup {Len(published) + 1}
                                                      ELSE Wanted(s)
         /\ Len(published') = Len(published) + 1
  <1> DEFINE m == Len(published)
  <1>1. /\ published \in Seq(Scopes) /\ m \in Nat /\ since[s] \in Nat /\ since[s] <= m
    BY DEF BusInv, TypeOK, SlotOK
  <1>2. /\ Len(published') = m + 1 /\ published'[m + 1] = scope
        /\ \A i \in 1..m : published'[i] = published[i]
    BY <1>1, AppendProperties
  <1>3. Wanted(s) \in SUBSET (1..m)
    BY <1>1 DEF Wanted
  <1>4. (since[s] + 1)..(m + 1) = ((since[s] + 1)..m) \cup {m + 1}
    BY <1>1
  <1>5. Wanted(s)' = {n \in (since[s] + 1)..(m + 1) : Matches(filter[s], published'[n])}
    BY <1>2 DEF Wanted
  <1>6. \A n \in (since[s] + 1)..m : published'[n] = published[n]
    BY <1>1, <1>2
  <1>. QED
    BY <1>2, <1>3, <1>4, <1>5, <1>6 DEF Wanted

\* A stream of which a step changes neither the events nor what it is for keeps
\* its invariant, unless it was to be complete and was not before.
LEMMA StreamKeeps ==
  ASSUME BusInv, NEW s \in Ids, UNCHANGED <<published, since, filter>>,
         written'[s] = written[s], hand'[s] = hand[s], queue'[s] = queue[s],
         handler'[s] \notin {"leaving", "done"} => handler[s] \notin {"leaving", "done"},
         (s \in subscribers' /\ handler'[s] # "leaving") =>
            (s \in subscribers /\ handler[s] # "leaving")
  PROVE  StreamOK(Wanted(s), written[s], hand[s], queue[s], handler[s], s \in subscribers)'
  <1>1. Wanted(s)' = Wanted(s)
    BY DEF Wanted
  <1>2. StreamOK(Wanted(s), written[s], hand[s], queue[s], handler[s], s \in subscribers)
    BY DEF BusInv
  <1>. QED
    BY <1>1, <1>2 DEF StreamOK

\* A new stream is for what is published from now on, and has taken nothing.
LEMMA SubscribeStep == ASSUME BusInv, NEW f \in Scopes, Subscribe(f) PROVE BusInv'
  <1>0. PICK k \in Nat : k = nextID + 1
    BY BusAssumption DEF BusInv, TypeOK
  <1>1. /\ TypeOK /\ nextID \in Nat /\ k \in Ids /\ k \in Nat /\ nextID' = k
        /\ Cardinality(subscribers) < maxSubscribers
        /\ k \notin subscribers
        /\ SlotOK(k) /\ k > nextID
    <2>1. TypeOK /\ nextID \in Nat /\ nextID < MaxSubscriptions /\ nextID' = nextID + 1
      BY BusAssumption DEF BusInv, TypeOK, Subscribe
    <2>2. k \in Ids /\ k > nextID
      BY <1>0, <2>1, BusAssumption DEF Ids
    <2>3. k \notin subscribers /\ SlotOK(k)
      BY <1>0, <2>1, <2>2 DEF BusInv, BusBounded
    <2>. QED
      BY <1>0, <2>1, <2>2, <2>3 DEF Subscribe
  <1>2. /\ subscribers' = subscribers \cup {k}
        /\ filter' = [filter EXCEPT ![k] = f] /\ since' = [since EXCEPT ![k] = Len(published)]
        /\ handler' = [handler EXCEPT ![k] = "handshake"]
        /\ watcher' = [watcher EXCEPT ![k] = "waiting"]
        /\ UNCHANGED <<closed, queue, ended, hand, cancelled, published, written>>
    BY <1>0, <1>1 DEF Subscribe
  <1>3. TypeOK'
    <2>1. filter' \in [Ids -> Scopes] /\ since' \in [Ids -> Nat]
      BY <1>1, <1>2 DEF TypeOK
    <2>2. handler' \in [Ids -> Labels] /\ watcher' \in [Ids -> {"none", "waiting", "gone"}]
      BY <1>1, <1>2 DEF TypeOK, Labels
    <2>3. nextID' \in 0..MaxSubscriptions /\ subscribers' \in SUBSET Ids
      BY <1>1, <1>2, BusAssumption DEF TypeOK, Ids
    <2>. QED
      BY <1>1, <1>2, <2>1, <2>2, <2>3 DEF TypeOK
  <1>4. Cardinality(subscribers') <= maxSubscribers
    <2>1. IsFiniteSet(subscribers)
      <3>1. IsFiniteSet(Ids)
        BY FS_Interval, BusAssumption DEF Ids
      <3>. QED
        BY <1>1, <3>1, FS_Subset DEF TypeOK
    <2>2. Cardinality(subscribers') = Cardinality(subscribers) + 1 /\ Cardinality(subscribers) \in Nat
      BY <1>1, <1>2, <2>1, FS_AddElement, FS_CardinalityType
    <2>. QED
      BY <1>1, <2>2, BusAssumption
  <1>5. /\ handler'[k] = "handshake" /\ since'[k] = Len(published)
        /\ written'[k] = <<>> /\ hand'[k] = <<>> /\ queue'[k] = <<>> /\ ended'[k] = 0
        /\ \A s \in Ids \ {k} : /\ handler'[s] = handler[s] /\ since'[s] = since[s]
                                /\ filter'[s] = filter[s] /\ watcher'[s] = watcher[s]
    BY <1>1, <1>2 DEF TypeOK, SlotOK
  <1>6. ASSUME NEW s \in Ids
        PROVE  /\ Len(queue'[s]) <= queueCapacity /\ ended'[s] <= 1
               /\ s \in subscribers' <=> (s <= nextID' /\ ended'[s] = 0)
               /\ handler'[s] = "done" => s \notin subscribers'
    <2>1. /\ Len(queue[s]) <= queueCapacity /\ ended[s] <= 1 /\ s \in Nat
          /\ s \in subscribers <=> (s <= nextID /\ ended[s] = 0)
          /\ handler[s] = "done" => s \notin subscribers
      BY BusAssumption DEF BusInv, BusBounded, Ids
    <2>2. CASE s = k
      BY <1>1, <1>2, <1>5, <2>1, <2>2
    <2>3. CASE s # k
      <3>1. s <= nextID' <=> s <= nextID
        BY <1>0, <1>1, <2>1, <2>3
      <3>. QED
        BY <1>2, <1>5, <2>1, <2>3, <3>1
    <2>. QED
      BY <2>2, <2>3
  <1>7. BusBounded'
    BY <1>4, <1>6 DEF BusBounded
  <1>8. ASSUME NEW s \in Ids, s # k
        PROVE  /\ SlotOK(s)'
               /\ StreamOK(Wanted(s), written[s], hand[s], queue[s], handler[s], s \in subscribers)'
    <2>1. /\ SlotOK(s) /\ s \in Nat
          /\ StreamOK(Wanted(s), written[s], hand[s], queue[s], handler[s], s \in subscribers)
      BY BusAssumption DEF BusInv, Ids
    <2>2. SlotOK(s)'
      BY <1>1, <1>2, <1>5, <1>8, <2>1 DEF SlotOK
    <2>3. Wanted(s)' = Wanted(s)
      BY <1>2, <1>5, <1>8 DEF Wanted
    <2>4. s \in subscribers' <=> s \in subscribers
      BY <1>2, <1>8
    <2>. QED
      BY <1>2, <1>5, <1>8, <2>1, <2>2, <2>3, <2>4 DEF StreamOK
  <1>9. /\ SlotOK(k)'
        /\ StreamOK(Wanted(k), written[k], hand[k], queue[k], handler[k], k \in subscribers)'
    <2>1. SlotOK(k)'
      BY <1>1, <1>2, <1>5 DEF SlotOK, TypeOK
    <2>2. Wanted(k)' = {}
      BY <1>1, <1>2, <1>5 DEF Wanted, TypeOK
    <2>3. Len(<<>> \o <<>> \o <<>>) = 0 /\ Len(<<>>) = 0
      <3>1. <<>> \in Seq(Nat) /\ Len(<<>>) = 0
        OBVIOUS
      <3>. QED
        BY <3>1, TakenElements
    <2>. QED
      BY <1>5, <2>1, <2>2, <2>3 DEF StreamOK, Increasing, Within, NoGap, Covers
  <1>. QED
    BY <1>3, <1>7, <1>8, <1>9 DEF BusInv

\* A publication reaches every stream it is for, or disconnects it.
LEMMA PublishStep == ASSUME BusInv, NEW scope \in Scopes, Publish(scope) PROVE BusInv'
  <1> DEFINE matching  == {s \in subscribers : Matches(filter[s], scope)}
             saturated == {s \in matching : Len(queue[s]) >= queueCapacity}
  <1>1. PICK m \in Nat : m = Len(published)
    BY DEF BusInv, TypeOK
  <1>2. /\ TypeOK /\ published' = Append(published, scope) /\ Finish(saturated)
        /\ queue' = [s \in Ids |-> IF s \in matching \ saturated
                                   THEN Append(queue[s], Len(published')) ELSE queue[s]]
        /\ UNCHANGED <<closed, nextID, filter, handler, hand, watcher, cancelled, since, written>>
    BY DEF Publish, others, BusInv
  <1>3. published' \in Seq(Scopes) /\ Len(published') = m + 1
    BY <1>1, <1>2, AppendProperties DEF TypeOK
  <1>4. ASSUME NEW s \in Ids, s \in matching \ saturated
        PROVE  queue'[s] = Append(queue[s], m + 1) /\ Len(queue[s]) < queueCapacity
    BY <1>2, <1>3, <1>4, BusAssumption DEF TypeOK
  <1>5. ASSUME NEW s \in Ids, s \notin matching \ saturated PROVE queue'[s] = queue[s]
    BY <1>2, <1>5
  <1>6. queue' \in [Ids -> Seq(Nat)] /\ \A s \in Ids : Len(queue'[s]) <= queueCapacity
    <2>1. ASSUME NEW s \in Ids PROVE queue'[s] \in Seq(Nat) /\ Len(queue'[s]) <= queueCapacity
      <3>1. queue[s] \in Seq(Nat) /\ Len(queue[s]) \in Nat /\ Len(queue[s]) <= queueCapacity
        BY <1>2 DEF TypeOK, BusInv, BusBounded
      <3>2. CASE s \in matching \ saturated
        <4>1. /\ Append(queue[s], m + 1) \in Seq(Nat)
              /\ Len(Append(queue[s], m + 1)) = Len(queue[s]) + 1
          BY <3>1, AppendProperties
        <4>2. queue'[s] = Append(queue[s], m + 1) /\ Len(queue[s]) < queueCapacity
          BY <1>4, <3>2
        <4>3. queueCapacity \in Nat
          BY BusAssumption
        <4>. QED
          BY <3>1, <4>1, <4>2, <4>3
      <3>3. CASE s \notin matching \ saturated
        BY <1>5, <3>1, <3>3
      <3>. QED
        BY <3>2, <3>3
    <2>2. queue' = [s \in Ids |-> queue'[s]]
      BY <1>2
    <2>. QED
      BY <2>1, <2>2
  <1>7. saturated \in SUBSET subscribers
    OBVIOUS
  <1>8. /\ subscribers' \in SUBSET subscribers /\ subscribers' \in SUBSET Ids
        /\ saturated \cap subscribers' = {} /\ ended' \in [Ids -> Nat]
        /\ Cardinality(subscribers') <= maxSubscribers
        /\ \A s \in Ids : /\ ended'[s] <= 1
                          /\ s \in subscribers' <=> (s <= nextID /\ ended'[s] = 0)
                          /\ s > nextID => ended'[s] = 0
    BY <1>2, <1>7, FinishOK
  <1>9. TypeOK'
    BY <1>2, <1>3, <1>6, <1>8 DEF TypeOK
  <1>10. BusBounded'
    BY <1>2, <1>6, <1>8 DEF BusBounded, BusInv
  <1>11. ASSUME NEW s \in Ids PROVE SlotOK(s)'
    <2>1. SlotOK(s) /\ since[s] \in Nat /\ BusBounded
      BY <1>2 DEF BusInv, TypeOK
    <2>2. s > nextID => s \notin matching
      BY <1>2, BusAssumption DEF BusInv, BusBounded, TypeOK, Ids
    <2>. QED
      BY <1>1, <1>2, <1>3, <1>5, <1>8, <2>1, <2>2 DEF SlotOK
  <1>12. ASSUME NEW s \in Ids
         PROVE  StreamOK(Wanted(s), written[s], hand[s], queue[s], handler[s], s \in subscribers)'
    <2> DEFINE W == Wanted(s)
               V == Wanted(s)'
               w == written[s]
               h == hand[s]
               q == queue[s]
               t == w \o h \o q
    <2>1. /\ w \in Seq(Nat) /\ h \in Seq(Nat) /\ q \in Seq(Nat) /\ t \in Seq(Nat)
          /\ Increasing(t) /\ Within(t, W) /\ NoGap(w, W)
          /\ handler[s] \notin {"leaving", "done"} => NoGap(t, W)
          /\ s \in subscribers /\ handler[s] # "leaving" => Covers(t, W)
      BY <1>2, TakenElements DEF BusInv, TypeOK, StreamOK
    <2>2. /\ W \in SUBSET (1..m)
          /\ V = IF Matches(filter[s], scope) THEN W \cup {m + 1} ELSE W
      BY <1>1, <1>2, WantedGrows
    <2>3. V \in SUBSET (1..(m + 1)) /\ W \subseteq V /\ V \subseteq W \cup {m + 1}
      BY <2>2
    <2>4. Within(w, W)
      BY <2>1, SentWithin
    <2>5. /\ Within(t, V) /\ (NoGap(t, W) => NoGap(t, V)) /\ NoGap(w, V)
      <3> HIDE DEF W, V, w, t
      <3>. QED
        BY <2>1, <2>2, <2>3, <2>4, NewEvent, ZenonT(40)
    <2>6. CASE s \in matching \ saturated
      <3>1. queue'[s] = Append(q, m + 1) /\ V = W \cup {m + 1} /\ s \in subscribers
        BY <1>4, <2>2, <2>6
      <3>2. w \o h \o Append(q, m + 1) = Append(t, m + 1)
        <4>1. m + 1 \in Nat
          OBVIOUS
        <4> HIDE DEF w, h, q
        <4>. QED
          BY <2>1, <4>1, TakenMoves
      <3>3. handler[s] # "done"
        BY <3>1 DEF BusInv, BusBounded
      <3> HIDE DEF W, V, w, h, q, t
      <3>4. /\ Increasing(Append(t, m + 1)) /\ Within(Append(t, m + 1), V)
            /\ Covers(t, W) => Covers(Append(t, m + 1), V) /\ NoGap(Append(t, m + 1), V)
        BY <2>1, <2>2, <3>1, TakesEvent
      <3>5. StreamOK(V, w, h, Append(q, m + 1), handler[s], s \in subscribers')
        BY <2>1, <2>5, <3>1, <3>2, <3>3, <3>4 DEF StreamOK
      <3>. QED
        BY <1>2, <3>1, <3>5 DEF V, w, h
    <2>7. CASE s \notin matching \ saturated
      <3>1. queue'[s] = q
        BY <1>5, <2>7
      <3>2. s \in subscribers' => s \in subscribers /\ V = W
        BY <1>8, <2>2, <2>7
      <3> HIDE DEF W, V, w, h, q
      <3>3. StreamOK(V, w, h, q, handler[s], s \in subscribers')
        BY <2>1, <2>5, <3>2 DEF StreamOK
      <3>. QED
        BY <1>2, <3>1, <3>3 DEF V, w, h
    <2>. QED
      BY <2>6, <2>7
  <1>. QED
    BY <1>9, <1>10, <1>11, <1>12 DEF BusInv

\* Streams leave: the bus closes, a watcher notices, a handler is done.
LEMMA LeaveStep ==
  ASSUME BusInv, CloseBus \/ \E s \in Ids : Watch(s) \/ Close(s)
  PROVE  BusInv'
  <1>1. /\ TypeOK
        /\ UNCHANGED <<nextID, filter, queue, hand, cancelled, published, since, written>>
        /\ closed' \in BOOLEAN
    BY DEF CloseBus, Watch, Close, others, past, BusInv, TypeOK
  <1>2. PICK S \in SUBSET subscribers : Finish(S)
    BY DEF CloseBus, Watch, Close, Remove
  <1>3. /\ subscribers' \in SUBSET subscribers /\ subscribers' \in SUBSET Ids
        /\ ended' \in [Ids -> Nat]
        /\ Cardinality(subscribers') <= maxSubscribers
        /\ \A s \in Ids : /\ ended'[s] <= 1
                          /\ s \in subscribers' <=> (s <= nextID /\ ended'[s] = 0)
                          /\ s > nextID => ended'[s] = 0
    BY <1>1, <1>2, FinishOK
  <1>4. /\ handler' \in [Ids -> Labels] /\ watcher' \in [Ids -> {"none", "waiting", "gone"}]
        /\ \A s \in Ids : \/ handler'[s] = handler[s]
                          \/ handler[s] = "leaving" /\ handler'[s] = "done" /\ s \notin subscribers'
        /\ \A s \in Ids : watcher[s] = "none" => watcher'[s] = "none"
    <2>1. CASE CloseBus
      BY <1>1, <2>1 DEF CloseBus, others, TypeOK
    <2>2. ASSUME NEW k \in Ids, Watch(k) PROVE <1>4
      BY <1>1, <2>2 DEF Watch, TypeOK
    <2>3. ASSUME NEW k \in Ids, Close(k) PROVE <1>4
      <3>1. k \notin subscribers'
        BY <2>3 DEF Close, Remove, Finish
      <3>. QED
        BY <1>1, <2>3, <3>1 DEF Close, Goto, TypeOK, Labels
    <2>. QED
      BY <2>1, <2>2, <2>3
  <1>5. TypeOK'
    BY <1>1, <1>3, <1>4 DEF TypeOK
  <1>6. BusBounded'
    BY <1>1, <1>3, <1>4 DEF BusBounded, BusInv
  <1>7. ASSUME NEW s \in Ids PROVE SlotOK(s)'
    BY <1>1, <1>3, <1>4 DEF BusInv, SlotOK
  <1>8. ASSUME NEW s \in Ids
        PROVE  StreamOK(Wanted(s), written[s], hand[s], queue[s], handler[s], s \in subscribers)'
    BY <1>1, <1>3, <1>4, StreamKeeps
  <1>. QED
    BY <1>5, <1>6, <1>7, <1>8 DEF BusInv

\* A handler begins, gives up, or its client goes away.
LEMMA LabelStep ==
  ASSUME BusInv, NEW k \in Ids,
         Handshake(k) \/ Leave(k) \/ HeartbeatFails(k) \/ Disconnect(k)
  PROVE  BusInv'
  <1>1. /\ TypeOK /\ UNCHANGED <<bus, hand, watcher, published, since, written>>
        /\ cancelled' \in SUBSET Ids
    BY DEF Handshake, Leave, HeartbeatFails, Disconnect, past, BusInv, TypeOK
  <1>2. /\ handler' \in [Ids -> Labels]
        /\ \A s \in Ids : \/ handler'[s] = handler[s]
                          \/ /\ handler[s] \in {"handshake", "streaming"}
                             /\ handler'[s] \in {"streaming", "leaving"}
    BY <1>1 DEF Handshake, Leave, HeartbeatFails, Disconnect, Goto, TypeOK, Labels
  <1>3. TypeOK'
    BY <1>1, <1>2 DEF TypeOK, bus
  <1>4. BusBounded'
    BY <1>1, <1>2 DEF BusBounded, BusInv, bus
  <1>5. ASSUME NEW s \in Ids PROVE SlotOK(s)'
    BY <1>1, <1>2 DEF BusInv, SlotOK, bus
  <1>6. ASSUME NEW s \in Ids
        PROVE  StreamOK(Wanted(s), written[s], hand[s], queue[s], handler[s], s \in subscribers)'
    <2>1. UNCHANGED <<filter, subscribers, queue>>
      BY <1>1 DEF bus
    <2>. QED
      BY <1>1, <1>2, <2>1, StreamKeeps
  <1>. QED
    BY <1>3, <1>4, <1>5, <1>6 DEF BusInv

\* Events move along one stream: the others keep theirs, and the bus its bounds.
LEMMA OthersKeep ==
  ASSUME BusInv, NEW k \in Ids, handler[k] \notin {"none", "done"},
         UNCHANGED <<closed, nextID, subscribers, filter, ended, watcher, cancelled>>,
         UNCHANGED <<published, since>>,
         NEW w \in Seq(Nat), written' = [written EXCEPT ![k] = w],
         NEW h \in Seq(Nat), hand' = [hand EXCEPT ![k] = h],
         NEW q \in Seq(Nat), queue' = [queue EXCEPT ![k] = q], Len(q) <= queueCapacity,
         NEW label \in {"streaming", "writing", "leaving"},
         handler' = [handler EXCEPT ![k] = label],
         label # "writing" => h = <<>>,
         StreamOK(Wanted(k), w, h, q, label, k \in subscribers)
  PROVE  BusInv'
  <1>1. TypeOK
    BY DEF BusInv
  <1>2. TypeOK'
    <2>1. written' \in [Ids -> Seq(Nat)] /\ hand' \in [Ids -> Seq(Nat)] /\ queue' \in [Ids -> Seq(Nat)]
      BY <1>1 DEF TypeOK
    <2>2. handler' \in [Ids -> Labels]
      BY <1>1 DEF TypeOK, Labels
    <2>. QED
      BY <1>1, <2>1, <2>2 DEF TypeOK
  <1>3. /\ written'[k] = w /\ hand'[k] = h /\ queue'[k] = q /\ handler'[k] = label
        /\ \A s \in Ids \ {k} : /\ written'[s] = written[s] /\ hand'[s] = hand[s]
                                /\ queue'[s] = queue[s] /\ handler'[s] = handler[s]
    BY <1>1 DEF TypeOK
  <1>4. BusBounded'
    <2>1. ASSUME NEW s \in Ids
          PROVE  /\ Len(queue'[s]) <= queueCapacity
                 /\ handler'[s] = "done" => s \notin subscribers
      BY <1>3 DEF BusInv, BusBounded
    <2>. QED
      BY <2>1 DEF BusInv, BusBounded
  <1>5. ASSUME NEW s \in Ids
        PROVE  /\ SlotOK(s)'
               /\ StreamOK(Wanted(s), written[s], hand[s], queue[s], handler[s], s \in subscribers)'
    <2>1. SlotOK(s)
      BY DEF BusInv
    <2>2. CASE s = k
      <3>1. ~(k > nextID)
        BY <2>1, <2>2 DEF SlotOK
      <3>2. SlotOK(s)'
        BY <1>3, <2>1, <2>2, <3>1 DEF SlotOK
      <3>3. Wanted(s)' = Wanted(s)
        BY DEF Wanted
      <3>. QED
        BY <1>3, <2>2, <3>2, <3>3
    <2>3. CASE s # k
      <3>1. SlotOK(s)'
        BY <1>3, <2>1, <2>3 DEF SlotOK
      <3>. QED
        BY <1>3, <2>3, <3>1, StreamKeeps
    <2>. QED
      BY <2>2, <2>3
  <1>. QED
    BY <1>2, <1>4, <1>5 DEF BusInv

\* The handler takes an event from its queue and writes it, well or badly.
LEMMA EventStep ==
  ASSUME BusInv, NEW k \in Ids, Receive(k) \/ WriteEvent(k) \/ WriteFails(k)
  PROVE  BusInv'
  <1> DEFINE W == Wanted(k)
             w == written[k]
             h == hand[k]
             q == queue[k]
  <1>1. /\ TypeOK /\ w \in Seq(Nat) /\ h \in Seq(Nat) /\ q \in Seq(Nat)
        /\ Len(q) \in Nat /\ Len(q) <= queueCapacity /\ queueCapacity \in Nat
        /\ <<>> \in Seq(Nat)
    BY BusAssumption DEF BusInv, BusBounded, TypeOK
  <1>2. StreamOK(W, w, h, q, handler[k], k \in subscribers)
    BY DEF BusInv
  <1>3. handler[k] # "writing" => h = <<>>
    BY DEF BusInv, SlotOK
  <1>4. /\ written = [written EXCEPT ![k] = w] /\ queue = [queue EXCEPT ![k] = q]
    BY <1>1 DEF TypeOK
  <1>5. CASE Receive(k)
    <2>1. /\ handler[k] = "streaming" /\ q # <<>> /\ h = <<>>
          /\ hand' = [hand EXCEPT ![k] = <<Head(q)>>] /\ queue' = [queue EXCEPT ![k] = Tail(q)]
          /\ handler' = [handler EXCEPT ![k] = "writing"]
          /\ UNCHANGED <<closed, nextID, subscribers, filter, ended, watcher, cancelled>>
          /\ UNCHANGED <<published, since, written>>
      BY <1>3, <1>5 DEF Receive, Goto, past
    <2> HIDE DEF W, w, h, q
    <2>2. /\ <<Head(q)>> \in Seq(Nat) /\ Tail(q) \in Seq(Nat) /\ Len(Tail(q)) <= queueCapacity
      BY <1>1, <2>1, HeadTailProperties
    <2>3. w \o <<Head(q)>> \o Tail(q) = w \o h \o q
      BY <1>1, <2>1, TakenMoves
    <2>4. StreamOK(W, w, <<Head(q)>>, Tail(q), "writing", k \in subscribers)
      BY <1>2, <2>1, <2>3 DEF StreamOK
    <2>5. handler[k] \notin {"none", "done"} /\ written' = [written EXCEPT ![k] = w]
      BY <1>4, <2>1
    <2>. QED
      BY <1>1, <2>1, <2>2, <2>4, <2>5, OthersKeep DEF W
  <1>6. CASE WriteEvent(k)
    <2>1. /\ handler[k] = "writing"
          /\ written' = [written EXCEPT ![k] = w \o h] /\ hand' = [hand EXCEPT ![k] = <<>>]
          /\ handler' = [handler EXCEPT ![k] = "streaming"]
          /\ UNCHANGED <<closed, nextID, subscribers, filter, ended, watcher, cancelled>>
          /\ UNCHANGED <<published, since, queue>>
      BY <1>6 DEF WriteEvent, Goto, bus
    <2> HIDE DEF W, w, h, q
    <2>2. w \o h \in Seq(Nat)
      BY <1>1, ConcatProperties
    <2>3. (w \o h) \o <<>> \o q = w \o h \o q
      BY <1>1, TakenMoves
    <2>4. NoGap(w \o h \o q, W)
      BY <1>2, <2>1 DEF StreamOK
    <2>5. NoGap(w \o h, W)
      BY <1>1, <2>4, SentPrefix
    <2>6. StreamOK(W, w \o h, <<>>, q, "streaming", k \in subscribers)
      BY <1>2, <2>1, <2>3, <2>4, <2>5 DEF StreamOK
    <2>7. handler[k] \notin {"none", "done"} /\ queue' = [queue EXCEPT ![k] = q]
      BY <1>4, <2>1
    <2>. QED
      BY <1>1, <2>1, <2>2, <2>6, <2>7, OthersKeep DEF W
  <1>7. CASE WriteFails(k)
    <2>1. /\ handler[k] = "writing" /\ hand' = [hand EXCEPT ![k] = <<>>]
          /\ handler' = [handler EXCEPT ![k] = "leaving"]
          /\ UNCHANGED <<closed, nextID, subscribers, filter, ended, watcher, cancelled>>
          /\ UNCHANGED <<published, since, queue, written>>
      BY <1>7 DEF WriteFails, Goto, bus, past
    <2> HIDE DEF W, w, h, q
    <2>2. Increasing(w \o <<>> \o q) /\ Within(w \o <<>> \o q, W)
      BY <1>1, <1>2, DropsEvent DEF StreamOK
    <2>3. StreamOK(W, w, <<>>, q, "leaving", k \in subscribers)
      BY <1>2, <2>2 DEF StreamOK
    <2>4. /\ handler[k] \notin {"none", "done"} /\ queue' = [queue EXCEPT ![k] = q]
          /\ written' = [written EXCEPT ![k] = w]
      BY <1>4, <2>1
    <2>. QED
      BY <1>1, <2>1, <2>3, <2>4, OthersKeep DEF W
  <1>. QED
    BY <1>5, <1>6, <1>7

-----------------------------------------------------------------------------
(* The theorems. *)

\* Nobody is registered and nothing was published.
LEMMA BusInit == Init => BusInv
  <1> SUFFICES ASSUME Init PROVE BusInv
    OBVIOUS
  <1>1. TypeOK
    <2>1. nextID \in 0..MaxSubscriptions
      BY BusAssumption DEF Init
    <2>2. <<>> \in Seq(Nat) /\ published \in Seq(Scopes)
      BY DEF Init
    <2>3. filter \in [Ids -> Scopes] /\ ended \in [Ids -> Nat] /\ since \in [Ids -> Nat]
      BY DEF Init, Scopes
    <2>4. /\ queue \in [Ids -> Seq(Nat)] /\ hand \in [Ids -> Seq(Nat)]
          /\ written \in [Ids -> Seq(Nat)]
      BY <2>2 DEF Init
    <2>5. handler \in [Ids -> Labels] /\ watcher \in [Ids -> {"none", "waiting", "gone"}]
      BY DEF Init, Labels
    <2>. QED
      BY <2>1, <2>2, <2>3, <2>4, <2>5 DEF Init, TypeOK
  <1>2. BusBounded
    <2>1. Cardinality(subscribers) = 0
      BY FS_EmptySet DEF Init
    <2>. QED
      BY <2>1, BusAssumption DEF Init, BusBounded, Ids
  <1>3. Len(<<>> \o <<>> \o <<>>) = 0 /\ Len(<<>>) = 0
    <2>1. <<>> \in Seq(Nat) /\ Len(<<>>) = 0
      OBVIOUS
    <2>. QED
      BY <2>1, TakenElements
  <1>4. ASSUME NEW s \in Ids
        PROVE  /\ SlotOK(s)
               /\ StreamOK(Wanted(s), written[s], hand[s], queue[s], handler[s], s \in subscribers)
    <2>1. SlotOK(s)
      BY <1>3 DEF Init, SlotOK
    <2>2. /\ s \notin subscribers /\ written[s] = <<>> /\ hand[s] = <<>> /\ queue[s] = <<>>
      BY DEF Init
    <2>. QED
      BY <1>3, <2>1, <2>2 DEF StreamOK, Increasing, Within, NoGap
  <1>. QED
    BY <1>1, <1>2, <1>4 DEF BusInv

\* Every step of the bus, of a handler, of a watcher or of a client keeps it.
LEMMA BusStep == BusInv /\ [Next]_vars => BusInv'
  <1> SUFFICES ASSUME BusInv, [Next]_vars PROVE BusInv'
    OBVIOUS
  <1>1. ASSUME NEW f \in Scopes, Subscribe(f) PROVE BusInv'
    BY <1>1, SubscribeStep
  <1>2. ASSUME NEW f \in Scopes, Publish(f) PROVE BusInv'
    BY <1>2, PublishStep
  <1>3. CASE CloseBus
    BY <1>3, LeaveStep
  <1>4. ASSUME NEW s \in Ids, Watch(s) \/ Close(s) PROVE BusInv'
    BY <1>4, LeaveStep
  <1>5. ASSUME NEW s \in Ids, Receive(s) \/ WriteEvent(s) \/ WriteFails(s) PROVE BusInv'
    BY <1>5, EventStep
  <1>6. ASSUME NEW s \in Ids, Handshake(s) \/ Leave(s) \/ HeartbeatFails(s) \/ Disconnect(s)
        PROVE  BusInv'
    BY <1>6, LabelStep
  <1>7. CASE UNCHANGED vars
    <2>1. TypeOK' /\ BusBounded'
      BY <1>7 DEF vars, bus, others, past, BusInv, TypeOK, BusBounded
    <2>2. ASSUME NEW s \in Ids
          PROVE  /\ SlotOK(s)'
                 /\ StreamOK(Wanted(s), written[s], hand[s], queue[s], handler[s], s \in subscribers)'
      <3>1. SlotOK(s)'
        BY <1>7 DEF vars, bus, others, past, BusInv, SlotOK
      <3>2. UNCHANGED <<published, since, filter, written, hand, queue, handler, subscribers>>
        BY <1>7 DEF vars, bus, others, past
      <3>. QED
        BY <3>1, <3>2, StreamKeeps
    <2>. QED
      BY <2>1, <2>2 DEF BusInv
  <1>. QED
    BY <1>1, <1>2, <1>3, <1>4, <1>5, <1>6, <1>7 DEF Next, Serve

\* The inductive invariant holds in every reachable state.
THEOREM BusInvariant == Spec => []BusInv
  BY BusInit, BusStep, PTL DEF Spec

\* However publishers, handlers, watchers and clients interleave, each stream
\* is finished once, memory stays bounded, what a client was sent has no gap,
\* and a stream still registered has missed nothing (realtime.go, Publish,
\* Subscribe, remove and finish; httpapi/realtime.go, the stream loop).
THEOREM StreamsAreGapless == Spec => []StreamIsGapless
  <1>1. BusInv => StreamIsGapless
    BY DEF BusInv, StreamIsGapless, Gapless, Taken, StreamOK, Increasing, Within, NoGap, Covers
  <1>. QED
    BY <1>1, BusInvariant, PTL

\* A stream leaves the bus because its own queue is full, its own client or
\* handler is gone, or the bus closes (realtime.go, Subscribe and Publish).
THEOREM LeaveForOwnReasons == Spec => DisconnectedForOwnReasons
  <1>1. ASSUME BusInv, [Next]_vars PROVE [LeftForOwnReasons]_vars
    <2> SUFFICES ASSUME NEW s \in subscribers, s \notin subscribers'
                 PROVE  \/ s \in cancelled
                        \/ handler[s] = "leaving"
                        \/ closed'
                        \/ /\ Len(queue[s]) = queueCapacity /\ queue'[s] = queue[s]
                           /\ published' # published
      BY DEF LeftForOwnReasons
    <2>1. /\ TypeOK /\ s \in Ids /\ ended[s] = 0 /\ Len(queue[s]) <= queueCapacity
          /\ Len(queue[s]) \in Nat /\ queueCapacity \in Nat
      BY <1>1, BusAssumption DEF BusInv, TypeOK, BusBounded
    <2>2. ASSUME NEW f \in Scopes, Subscribe(f) PROVE FALSE
      BY <2>2 DEF Subscribe
    <2>3. ASSUME NEW f \in Scopes, Publish(f)
          PROVE  /\ Len(queue[s]) = queueCapacity /\ queue'[s] = queue[s]
                 /\ published' # published
      <3>1. /\ published' = Append(published, f) /\ Len(queue[s]) >= queueCapacity
            /\ queue'[s] = queue[s]
        BY <2>1, <2>3 DEF Publish, Finish
      <3>2. Len(published') = Len(published) + 1 /\ Len(published) \in Nat
        BY <2>1, <3>1, AppendProperties DEF TypeOK
      <3>3. published' # published
        BY <3>2
      <3>. QED
        BY <2>1, <3>1, <3>3
    <2>4. CASE CloseBus
      BY <2>4 DEF CloseBus
    <2>5. ASSUME NEW k \in Ids, Watch(k) PROVE s \in cancelled
      <3>1. k = s
        BY <2>5 DEF Watch, Remove, Finish
      <3>. QED
        BY <2>1, <2>5, <3>1 DEF Watch
    <2>6. ASSUME NEW k \in Ids, Close(k) PROVE handler[s] = "leaving"
      <3>1. k = s
        BY <2>6 DEF Close, Remove, Finish
      <3>. QED
        BY <2>6, <3>1 DEF Close
    <2>7. ASSUME UNCHANGED subscribers PROVE FALSE
      BY <2>7
    <2>8. ASSUME NEW k \in Ids,
                 \/ Handshake(k) \/ Receive(k) \/ WriteEvent(k) \/ WriteFails(k)
                 \/ Leave(k) \/ HeartbeatFails(k) \/ Disconnect(k)
          PROVE  UNCHANGED subscribers
      BY <2>8 DEF Handshake, Receive, WriteEvent, WriteFails, Leave, HeartbeatFails, Disconnect, bus
    <2>9. ASSUME UNCHANGED vars PROVE UNCHANGED subscribers
      BY <2>9 DEF vars, bus
    <2>. QED
      BY <1>1, <2>2, <2>3, <2>4, <2>5, <2>6, <2>7, <2>8, <2>9 DEF Next, Serve
  <1>. QED
    BY <1>1, BusInvariant, PTL DEF Spec, DisconnectedForOwnReasons

(***************************************************************************)
(* The components that MCEvidence runs beside the bus.                     *)
(***************************************************************************)

\* A behaviour stays with the component its initial state chose.
LEMMA PartStays == ASSUME [EvidenceNext]_all PROVE part' = part
  BY DEF EvidenceNext, all, CountingOnly, RepeatedOnly, FindingOnly, SummaryOnly, BusOnly,
         SuiteOnly, LockOnly, SchemaOnly, PgOnly

-----------------------------------------------------------------------------
(* The lock beside a learned baseline, for any number of processes that     *)
(* follow one another.                                                      *)

\* One process runs at a time; a pid in the file is of one that holds the lock
\* or has ended, so that it is alive only for itself.
LockInv ==
    /\ DOMAIN ownerPc = LockOwners
    /\ \A x, y \in LockOwners : Lock!Running(x) /\ Lock!Running(y) => x = y
    /\ \A x \in LockOwners : ownerPc[x] # "refused"
    /\ \A x \in LockOwners : lockFile # None /\ lockFile.pid = x => ownerPc[x] \in {"held", "ended"}

\* Every step of every process keeps that.
LEMMA LockStep ==
  ASSUME Lock!ProcsAssumption, LockInv, [Lock!Next]_lockVars
  PROVE  LockInv'
  <1>1. CASE UNCHANGED lockVars
    BY <1>1 DEF lockVars, LockInv, Lock!Running
  <1>2. ASSUME NEW x \in LockOwners, Lock!Start(x) PROVE LockInv'
    BY <1>2 DEF LockInv, Lock!Running, Lock!Start, Lock!Goto
  <1>3. ASSUME NEW x \in LockOwners, Lock!Create(x) PROVE LockInv'
    BY <1>3 DEF LockInv, Lock!Running, Lock!Create, Lock!Goto, Lock!ProcsAssumption
  <1>4. ASSUME NEW x \in LockOwners, Lock!WritePid(x) PROVE LockInv'
    BY <1>4 DEF LockInv, Lock!Running, Lock!WritePid, Lock!Goto
  <1>5. ASSUME NEW x \in LockOwners, Lock!Exists(x) \/ Lock!Killed(x) PROVE LockInv'
    BY <1>5 DEF LockInv, Lock!Running, Lock!Exists, Lock!Killed, Lock!Goto
  <1>6. ASSUME NEW x \in LockOwners, Lock!owner(x) PROVE LockInv'
    BY <1>6 DEF LockInv, Lock!Running, Lock!owner, Lock!processAliveForBaseline, Lock!Goto
  <1>7. ASSUME NEW x \in LockOwners, Lock!Reclaim(x) \/ Lock!release(x) PROVE LockInv'
    BY <1>7 DEF LockInv, Lock!Running, Lock!Reclaim, Lock!release, Lock!Goto
  <1>. QED
    BY <1>1, <1>2, <1>3, <1>4, <1>5, <1>6, <1>7 DEF Lock!Next

(* Of development runs that follow one another none is turned away by a lock  *)
(* that a killed one left, whenever it was killed, and no two learn at once   *)
(* (dev_baseline.go, acquireBaseline).                                        *)
THEOREM StaleLocksTakenOver == EvidenceSpec => []StaleLocksAreTakenOver
  <1> DEFINE PartInv == part = "lock" => LockInv
  <1>1. EvidenceInit => PartInv
    BY DEF EvidenceInit, Lock!Init, LockInv, Lock!Running
  <1>2. PartInv /\ [EvidenceNext]_all => PartInv'
    <2> SUFFICES ASSUME PartInv, [EvidenceNext]_all, part = "lock" PROVE LockInv'
      BY PartStays
    <2>1. [Lock!Next]_lockVars
      BY DEF EvidenceNext, all
    <2>. QED
      BY <2>1, LockStep, PartsAssumption
  <1>3. PartInv => StaleLocksAreTakenOver
    BY DEF StaleLocksAreTakenOver, Lock!StaleLocksAreTakenOver, Lock!OneLearner, LockInv, Lock!Running
  <1>. QED
    BY <1>1, <1>2, <1>3, PTL DEF EvidenceSpec

-----------------------------------------------------------------------------
(* The baselines in PostgreSQL.                                              *)

\* A database whose version cannot be told, or is a later build's.
UnknownDatabase(v, r) == Learned!Cardinality(v) > 1 \/ (v = {} /\ r # Learned!NoRows) \/ v = {3}

ServingNow(p) == processes[p] = "serving"

\* What a key has learned, and what a call that locks its row reads.
LearnedIn(r, k) == IF r[k] = None THEN {} ELSE r[k].learned
SeenRow(r, k) == IF r[k] = None THEN Learned!Row({}, Learned!SchemaVersion) ELSE r[k]

\* Where everything is.
RowsPlaceInv ==
    /\ versions \in {{}, {1}, {2}, {3}, {1, 3}} /\ baselines \in [LearnedKeys -> Learned!Rows \cup {None}]
    /\ processes \in [LearningProcesses -> {"off", "migrating", "serving", "refused"}]
    /\ DOMAIN callPc = LearningCalls /\ DOMAIN read = LearningCalls /\ DOMAIN rowLock = LearnedKeys
    /\ returned \subseteq committed /\ committed \subseteq LearningCalls

\* The database beside its version: the current version has its layout, and a
\* process serves on nothing else.
RowsLayoutInv ==
    /\ versions = {Learned!SchemaVersion} =>
          scoped = TRUE /\ \A k \in LearnedKeys : baselines[k] # None => baselines[k].stamp = Learned!SchemaVersion
    /\ \A p \in LearningProcesses : ServingNow(p) => versions = {Learned!SchemaVersion}
    /\ UnknownDatabase(original.versions, original.rows) =>
          /\ original = [versions |-> versions, rows |-> baselines, scoped |-> scoped]
          /\ \A p \in LearningProcesses : ~ServingNow(p)

\* What a transaction read under its lock is still the row.
RowsLockInv ==
    \A c \in LearningCalls : callPc[c] = "locked" =>
        /\ rowLock[LearnedKeyOf[c]] = c
        /\ ServingNow(LearningProcessOf[c])
        /\ read[c] = SeenRow(baselines, LearnedKeyOf[c])

\* A row holds the calls that committed to it.
RowsLearnedInv == \A k \in LearnedKeys : LearnedIn(baselines, k) = {c \in committed : LearnedKeyOf[c] = k}

\* The inductive invariant.
PostgresInv == RowsPlaceInv /\ RowsLayoutInv /\ RowsLockInv /\ RowsLearnedInv

-----------------------------------------------------------------------------
(* Rows as values. *)

\* A row is what was learned, its stamp and the counter derived from it.
LEMMA RowFields ==
  ASSUME NEW l \in SUBSET LearningCalls, NEW v \in {1, 2}
  PROVE  /\ Learned!Row(l, v) \in Learned!Rows /\ Learned!Row(l, v).learned = l /\ Learned!Row(l, v).stamp = v
         /\ Learned!Row(l, v).observations = Learned!Cardinality(l)
  BY DEF Learned!Row, Learned!Rows, Learned!schemaVersionUnscoped, Learned!SchemaVersion

\* ... and nothing else is a row.
LEMMA RowParts ==
  ASSUME NEW x \in Learned!Rows
  PROVE  /\ x.learned \in SUBSET LearningCalls /\ x.stamp \in {1, 2}
         /\ x.observations = Learned!Cardinality(x.learned)
         /\ [x EXCEPT !.stamp = Learned!SchemaVersion] = Learned!Row(x.learned, Learned!SchemaVersion)
  <1>1. PICK l \in SUBSET LearningCalls, v \in {1, 2} : x = Learned!Row(l, v)
    BY DEF Learned!Rows, Learned!schemaVersionUnscoped, Learned!SchemaVersion
  <1>. QED
    BY <1>1 DEF Learned!Row

\* Migrating goes ahead on the three states it can tell, and leaves what was learned.
LEMMA MigrateRows ==
  ASSUME Learned!CallsAssumption, PostgresInv, NEW p \in LearningProcesses, Learned!Migrate(p)
  PROVE  /\ ~UnknownDatabase(versions, baselines)
         /\ baselines' \in [LearnedKeys -> Learned!Rows \cup {None}]
         /\ \A k \in LearnedKeys : /\ (baselines'[k] = None) <=> (baselines[k] = None)
                                   /\ LearnedIn(baselines', k) = LearnedIn(baselines, k)
                                   /\ baselines'[k] # None => baselines'[k].stamp = Learned!SchemaVersion
         /\ versions = {Learned!SchemaVersion} => baselines' = baselines
  <1>1. /\ baselines \in [LearnedKeys -> Learned!Rows \cup {None}] /\ Learned!NoRows \in [LearnedKeys -> Learned!Rows \cup {None}]
        /\ versions \in {{}, {1}, {2}, {3}, {1, 3}}
    BY DEF PostgresInv, RowsPlaceInv, Learned!NoRows
  <1>2. ~(Learned!Cardinality(versions) > 1) /\ (versions = {} => Learned!Held = {})
    BY DEF Learned!Migrate, Learned!ErrAmbiguousSchemaState
  <1>3. versions = {} \/ versions = {1} \/ versions = {2}
    BY DEF Learned!Migrate, Learned!ErrSchemaVersionMismatch, Learned!SchemaVersion, Learned!schemaVersionUnscoped
  <1>4. versions = {} => baselines = Learned!NoRows
    BY <1>1, <1>2 DEF Learned!Held, Learned!NoRows
  <1>5. ~UnknownDatabase(versions, baselines)
    BY <1>2, <1>3, <1>4 DEF UnknownDatabase
  <1>6. CASE versions = {1}
    <2>1. baselines' = Learned!upgradeUnscoped
      BY <1>6 DEF Learned!Migrate, Learned!schemaVersionUnscoped
    <2>2. ASSUME NEW k \in LearnedKeys, baselines[k] # None
          PROVE  /\ baselines'[k] = Learned!Row(baselines[k].learned, Learned!SchemaVersion) /\ baselines[k].learned \in SUBSET LearningCalls
                 /\ baselines'[k] \in Learned!Rows /\ baselines'[k].learned = baselines[k].learned
                 /\ baselines'[k].stamp = Learned!SchemaVersion /\ baselines'[k] # None
      <3>1. baselines[k] \in Learned!Rows
        BY <1>1, <2>2
      <3>2. baselines'[k] = Learned!Row(baselines[k].learned, Learned!SchemaVersion) /\ baselines[k].learned \in SUBSET LearningCalls
        BY <2>1, <2>2, <3>1, RowParts DEF Learned!upgradeUnscoped
      <3>. QED
        BY <3>2, RowFields DEF Learned!SchemaVersion, Learned!CallsAssumption
    <2>3. \A k \in LearnedKeys : baselines[k] = None => baselines'[k] = None
      BY <2>1 DEF Learned!upgradeUnscoped
    <2>4. baselines' \in [LearnedKeys -> Learned!Rows \cup {None}]
      <3>1. DOMAIN baselines' = LearnedKeys /\ baselines' = [k \in LearnedKeys |-> baselines'[k]]
        BY <2>1 DEF Learned!upgradeUnscoped
      <3>. QED
        BY <2>2, <2>3, <3>1
    <2>5. versions # {Learned!SchemaVersion}
      BY <1>6 DEF Learned!SchemaVersion
    <2>. QED
      BY <1>5, <2>2, <2>3, <2>4, <2>5 DEF LearnedIn
  <1>7. CASE versions # {1}
    <2>1. baselines' = baselines
      BY <1>7 DEF Learned!Migrate, Learned!schemaVersionUnscoped
    <2>2. \A k \in LearnedKeys : baselines[k] # None => baselines[k].stamp = Learned!SchemaVersion
      BY <1>3, <1>4, <1>7 DEF PostgresInv, RowsLayoutInv, Learned!NoRows, Learned!SchemaVersion
    <2>. QED
      BY <1>1, <1>5, <2>1, <2>2 DEF LearnedIn
  <1>. QED
    BY <1>6, <1>7

-----------------------------------------------------------------------------
(* Starting. *)

\* The database an operator presents.
LEMMA RowsInit == ASSUME Learned!CallsAssumption, Learned!Init PROVE PostgresInv
  <1>1. Learned!Row({}, 1) \in Learned!Rows /\ Learned!Row({}, 1).learned = {} /\ Learned!Row({}, 1).stamp = 1
    BY RowFields
  <1>2. Learned!Row({}, 2) \in Learned!Rows /\ Learned!Row({}, 2).learned = {} /\ Learned!Row({}, 2).stamp = 2
    BY RowFields
  <1>3. ASSUME NEW v \in {1, 2}
        PROVE  /\ Learned!OneRow(v) \in [LearnedKeys -> Learned!Rows \cup {None}]
               /\ \A k \in LearnedKeys : /\ LearnedIn(Learned!OneRow(v), k) = {}
                                         /\ Learned!OneRow(v)[k] # None => Learned!OneRow(v)[k].stamp = v
    BY <1>1, <1>2 DEF Learned!OneRow, LearnedIn
  <1>4. /\ Learned!NoRows \in [LearnedKeys -> Learned!Rows \cup {None}]
        /\ \A k \in LearnedKeys : LearnedIn(Learned!NoRows, k) = {} /\ Learned!NoRows[k] = None
    BY DEF Learned!NoRows, LearnedIn
  <1>5. baselines = Learned!NoRows \/ \E v \in {1, 2} : baselines = Learned!OneRow(v)
    BY DEF Learned!Init
  <1>6. baselines \in [LearnedKeys -> Learned!Rows \cup {None}] /\ \A k \in LearnedKeys : LearnedIn(baselines, k) = {}
    BY <1>3, <1>4, <1>5
  <1>7. RowsPlaceInv
    BY <1>6 DEF Learned!Init, RowsPlaceInv
  <1>8. RowsLearnedInv
    BY <1>6 DEF Learned!Init, RowsLearnedInv
  <1>9. RowsLockInv
    BY DEF Learned!Init, RowsLockInv
  <1>10. RowsLayoutInv
    <2>1. ASSUME versions = {Learned!SchemaVersion}
          PROVE  scoped = TRUE /\ \A k \in LearnedKeys : baselines[k] # None => baselines[k].stamp = Learned!SchemaVersion
      <3>1. scoped = TRUE /\ (baselines = Learned!NoRows \/ baselines = Learned!OneRow(2))
        BY <2>1 DEF Learned!Init, Learned!SchemaVersion
      <3>. QED
        BY <1>3, <1>4, <3>1 DEF Learned!SchemaVersion
    <2>2. \A p \in LearningProcesses : ~ServingNow(p)
      BY DEF Learned!Init, ServingNow
    <2>3. original = [versions |-> versions, rows |-> baselines, scoped |-> scoped]
      BY DEF Learned!Init
    <2>. QED
      BY <2>1, <2>2, <2>3 DEF RowsLayoutInv
  <1>. QED
    BY <1>7, <1>8, <1>9, <1>10 DEF PostgresInv

\* A process takes the migration lock or gives it up without a commit: the
\* database stays, and nobody starts to serve.
LEMMA RowsWaitStep ==
  ASSUME Learned!CallsAssumption, PostgresInv, NEW p \in LearningProcesses,
         Learned!pg_advisory_xact_lock(p) \/ Learned!MigrateFails(p)
  PROVE  PostgresInv'
  <1>1. /\ UNCHANGED <<versions, scoped, baselines, callPc, read, rowLock, returned, committed, original>>
        /\ ~ServingNow(p) /\ ~ServingNow(p)' /\ processes' \in [LearningProcesses -> {"off", "migrating", "serving", "refused"}]
        /\ \A x \in LearningProcesses : ServingNow(x)' <=> ServingNow(x)
    BY DEF PostgresInv, RowsPlaceInv, Learned!pg_advisory_xact_lock, Learned!MigrateFails, ServingNow, Learned!database, Learned!ghosts
  <1>2. RowsPlaceInv'
    BY <1>1 DEF PostgresInv, RowsPlaceInv
  <1>3. RowsLayoutInv'
    BY <1>1 DEF PostgresInv, RowsLayoutInv, UnknownDatabase, Learned!NoRows, Learned!SchemaVersion
  <1>4. RowsLockInv'
    BY <1>1 DEF PostgresInv, RowsLockInv, SeenRow, Learned!CallsAssumption
  <1>5. RowsLearnedInv'
    BY <1>1 DEF PostgresInv, RowsLearnedInv, LearnedIn
  <1>. QED
    BY <1>2, <1>3, <1>4, <1>5 DEF PostgresInv

\* A process migrates or verifies, and serves.  Nobody else has a transaction
\* under way unless the database is current, when nothing is rewritten.
LEMMA RowsMigrateStep ==
  ASSUME Learned!CallsAssumption, PostgresInv, NEW p \in LearningProcesses, Learned!Migrate(p)
  PROVE  PostgresInv'
  <1>1. /\ UNCHANGED <<callPc, read, rowLock, returned, committed, original>>
        /\ versions' = {Learned!SchemaVersion} /\ scoped' = TRUE
        /\ processes' \in [LearningProcesses -> {"off", "migrating", "serving", "refused"}]
        /\ \A x \in LearningProcesses : ServingNow(x) => ServingNow(x)'
    BY DEF PostgresInv, RowsPlaceInv, Learned!Migrate, ServingNow, Learned!ghosts
  <1>2. /\ ~UnknownDatabase(versions, baselines)
        /\ baselines' \in [LearnedKeys -> Learned!Rows \cup {None}]
        /\ \A k \in LearnedKeys : /\ LearnedIn(baselines', k) = LearnedIn(baselines, k)
                                  /\ baselines'[k] # None => baselines'[k].stamp = Learned!SchemaVersion
        /\ versions = {Learned!SchemaVersion} => baselines' = baselines
    BY MigrateRows
  <1>3. RowsPlaceInv'
    BY <1>1, <1>2 DEF PostgresInv, RowsPlaceInv, Learned!SchemaVersion
  <1>4. RowsLayoutInv'
    <2>1. ~UnknownDatabase(original.versions, original.rows)
      BY <1>2 DEF PostgresInv, RowsLayoutInv
    <2>. QED
      BY <1>1, <1>2, <2>1 DEF RowsLayoutInv
  <1>5. RowsLockInv'
    <2> SUFFICES ASSUME NEW c \in LearningCalls, callPc[c] = "locked"
                 PROVE  /\ rowLock[LearnedKeyOf[c]] = c /\ ServingNow(LearningProcessOf[c])'
                        /\ read[c] = SeenRow(baselines', LearnedKeyOf[c])
      BY <1>1 DEF RowsLockInv
    <2>1. LearningProcessOf[c] \in LearningProcesses
      BY DEF Learned!CallsAssumption
    <2>2. /\ rowLock[LearnedKeyOf[c]] = c /\ ServingNow(LearningProcessOf[c])
          /\ read[c] = SeenRow(baselines, LearnedKeyOf[c])
      BY DEF PostgresInv, RowsLockInv
    <2>3. baselines' = baselines
      BY <1>2, <2>1, <2>2 DEF PostgresInv, RowsLayoutInv
    <2>. QED
      BY <1>1, <2>1, <2>2, <2>3
  <1>6. RowsLearnedInv'
    BY <1>1, <1>2 DEF PostgresInv, RowsLearnedInv
  <1>. QED
    BY <1>3, <1>4, <1>5, <1>6 DEF PostgresInv

-----------------------------------------------------------------------------
(* Observing. *)

\* A call locks the row of its key and reads it.
LEMMA RowsLockStep ==
  ASSUME Learned!CallsAssumption, PostgresInv, NEW c \in LearningCalls, Learned!LockRow(c)
  PROVE  PostgresInv'
  <1>1. /\ UNCHANGED <<versions, scoped, baselines, processes, returned, committed, original>>
        /\ LearnedKeyOf[c] \in LearnedKeys /\ LearningProcessOf[c] \in LearningProcesses /\ c # None
        /\ rowLock[LearnedKeyOf[c]] = None /\ ServingNow(LearningProcessOf[c])
    BY DEF Learned!CallsAssumption, Learned!LockRow, ServingNow, Learned!database, Learned!ghosts
  <1>2. /\ DOMAIN callPc' = LearningCalls /\ DOMAIN read' = LearningCalls /\ DOMAIN rowLock' = LearnedKeys
        /\ read'[c] = SeenRow(baselines, LearnedKeyOf[c]) /\ rowLock'[LearnedKeyOf[c]] = c
        /\ \A d \in LearningCalls \ {c} : callPc'[d] = callPc[d] /\ read'[d] = read[d]
        /\ \A k \in LearnedKeys \ {LearnedKeyOf[c]} : rowLock'[k] = rowLock[k]
    BY <1>1 DEF PostgresInv, RowsPlaceInv, Learned!LockRow, SeenRow
  <1>3. RowsPlaceInv'
    BY <1>1, <1>2 DEF PostgresInv, RowsPlaceInv
  <1>4. RowsLayoutInv'
    BY <1>1 DEF PostgresInv, RowsLayoutInv, UnknownDatabase, Learned!NoRows, Learned!SchemaVersion, ServingNow
  <1>5. RowsLockInv'
    <2> SUFFICES ASSUME NEW d \in LearningCalls, callPc'[d] = "locked"
                 PROVE  /\ rowLock'[LearnedKeyOf[d]] = d /\ ServingNow(LearningProcessOf[d])'
                        /\ read'[d] = SeenRow(baselines', LearnedKeyOf[d])
      BY DEF RowsLockInv
    <2>1. CASE d = c
      BY <1>1, <1>2, <2>1 DEF ServingNow
    <2>2. CASE d # c
      <3>1. /\ rowLock[LearnedKeyOf[d]] = d /\ ServingNow(LearningProcessOf[d]) /\ d # None /\ LearnedKeyOf[d] \in LearnedKeys
            /\ read[d] = SeenRow(baselines, LearnedKeyOf[d])
        BY <1>2, <2>2 DEF PostgresInv, RowsLockInv, Learned!CallsAssumption
      <3>. QED
        BY <1>1, <1>2, <2>2, <3>1 DEF ServingNow
    <2>. QED
      BY <2>1, <2>2
  <1>6. RowsLearnedInv'
    BY <1>1 DEF PostgresInv, RowsLearnedInv
  <1>. QED
    BY <1>3, <1>4, <1>5, <1>6 DEF PostgresInv

\* The other transactions when one of them ends: each still holds its row.
LEMMA RowsOthersKeep ==
  ASSUME Learned!CallsAssumption, PostgresInv, NEW c \in LearningCalls, Learned!Release(c), processes' = processes,
         callPc' = [callPc EXCEPT ![c] = "ended"], read' = [read EXCEPT ![c] = None],
         callPc[c] = "locked",
         \A k \in LearnedKeys \ {LearnedKeyOf[c]} : baselines'[k] = baselines[k]
  PROVE  /\ DOMAIN callPc' = LearningCalls /\ DOMAIN read' = LearningCalls /\ DOMAIN rowLock' = LearnedKeys
         /\ RowsLockInv'
  <1>1. DOMAIN callPc' = LearningCalls /\ DOMAIN read' = LearningCalls /\ DOMAIN rowLock' = LearnedKeys
    BY DEF PostgresInv, RowsPlaceInv, Learned!Release
  <1>2. ASSUME NEW d \in LearningCalls, callPc'[d] = "locked"
        PROVE  /\ rowLock'[LearnedKeyOf[d]] = d /\ ServingNow(LearningProcessOf[d])'
               /\ read'[d] = SeenRow(baselines', LearnedKeyOf[d])
    <2>1. d # c /\ callPc[d] = "locked" /\ read'[d] = read[d]
      BY <1>2 DEF PostgresInv, RowsPlaceInv
    <2>2. /\ rowLock[LearnedKeyOf[d]] = d /\ ServingNow(LearningProcessOf[d]) /\ LearnedKeyOf[d] \in LearnedKeys
          /\ read[d] = SeenRow(baselines, LearnedKeyOf[d]) /\ rowLock[LearnedKeyOf[c]] = c
      BY <2>1 DEF PostgresInv, RowsLockInv, Learned!CallsAssumption
    <2>3. LearnedKeyOf[d] # LearnedKeyOf[c] /\ baselines'[LearnedKeyOf[d]] = baselines[LearnedKeyOf[d]]
      BY <2>1, <2>2
    <2>. QED
      BY <2>1, <2>2, <2>3 DEF Learned!Release, SeenRow, ServingNow
  <1>. QED
    BY <1>1, <1>2 DEF RowsLockInv

\* A commit: the row read is the row that is there, so what others learned
\* into it before stays in it.
LEMMA RowsCommitStep ==
  ASSUME Learned!CallsAssumption, PostgresInv, NEW c \in LearningCalls, Learned!Commit(c)
  PROVE  PostgresInv'
  <1>0. PICK k : k = LearnedKeyOf[c]
    OBVIOUS
  <1>1. /\ UNCHANGED <<versions, scoped, processes, original>> /\ Learned!Release(c)
        /\ callPc[c] = "locked" /\ committed' = committed \cup {c} /\ returned' \subseteq returned \cup {c}
        /\ callPc' = [callPc EXCEPT ![c] = "ended"] /\ read' = [read EXCEPT ![c] = None]
        /\ baselines' = [baselines EXCEPT ![k] = Learned!Row(read[c].learned \cup {c}, Learned!SchemaVersion)]
    BY <1>0 DEF Learned!Commit, Learned!Updated
  <1>2. /\ k \in LearnedKeys /\ LearningProcessOf[c] \in LearningProcesses /\ ServingNow(LearningProcessOf[c]) /\ read[c] = SeenRow(baselines, k)
    BY <1>0, <1>1 DEF PostgresInv, RowsLockInv, Learned!CallsAssumption
  <1>3. versions = {Learned!SchemaVersion} /\ ~UnknownDatabase(original.versions, original.rows)
    BY <1>2 DEF PostgresInv, RowsLayoutInv
  <1>4. /\ baselines \in [LearnedKeys -> Learned!Rows \cup {None}] /\ committed \subseteq LearningCalls /\ returned \subseteq committed
        /\ versions \in {{}, {1}, {2}, {3}, {1, 3}}
        /\ processes \in [LearningProcesses -> {"off", "migrating", "serving", "refused"}]
    BY DEF PostgresInv, RowsPlaceInv
  <1>5. read[c].learned = LearnedIn(baselines, k) /\ read[c].learned \in SUBSET LearningCalls
    <2>1. CASE baselines[k] = None
      <3>1. Learned!Row({}, 2).learned = {}
        BY RowFields
      <3>. QED
        BY <1>2, <2>1, <3>1 DEF SeenRow, LearnedIn, Learned!SchemaVersion
    <2>2. CASE baselines[k] # None
      <3>1. baselines[k] \in Learned!Rows
        BY <1>2, <1>4, <2>2
      <3>2. baselines[k].learned \in SUBSET LearningCalls
        BY <3>1, RowParts
      <3>. QED
        BY <1>2, <2>2, <3>2 DEF SeenRow, LearnedIn
    <2>. QED
      BY <2>1, <2>2
  <1>6. PICK x : x = Learned!Row(read[c].learned \cup {c}, Learned!SchemaVersion)
    OBVIOUS
  <1>7. /\ x \in Learned!Rows /\ x # None /\ x.learned = LearnedIn(baselines, k) \cup {c} /\ x.stamp = Learned!SchemaVersion
    <2>1. read[c].learned \cup {c} \in SUBSET LearningCalls
      BY <1>5
    <2>. QED
      BY <1>5, <1>6, <2>1, RowFields DEF Learned!SchemaVersion, Learned!CallsAssumption
  <1>8. /\ baselines' \in [LearnedKeys -> Learned!Rows \cup {None}] /\ baselines'[k] = x
        /\ \A y \in LearnedKeys \ {k} : baselines'[y] = baselines[y]
    BY <1>1, <1>2, <1>4, <1>6, <1>7
  <1>9. /\ DOMAIN callPc' = LearningCalls /\ DOMAIN read' = LearningCalls /\ DOMAIN rowLock' = LearnedKeys /\ RowsLockInv'
    BY <1>0, <1>1, <1>8, RowsOthersKeep
  <1>10. RowsPlaceInv'
    BY <1>1, <1>4, <1>8, <1>9 DEF RowsPlaceInv
  <1>11. RowsLayoutInv'
    <2>1. versions' = {Learned!SchemaVersion} /\ scoped' = TRUE /\ original' = original
      BY <1>1, <1>3 DEF PostgresInv, RowsLayoutInv
    <2>2. \A y \in LearnedKeys : baselines'[y] # None => baselines'[y].stamp = Learned!SchemaVersion
      BY <1>3, <1>7, <1>8 DEF PostgresInv, RowsLayoutInv
    <2>. QED
      BY <1>3, <2>1, <2>2 DEF RowsLayoutInv
  <1>12. RowsLearnedInv'
    <2> SUFFICES ASSUME NEW y \in LearnedKeys
                 PROVE  LearnedIn(baselines', y) = {d \in committed' : LearnedKeyOf[d] = y}
      BY DEF RowsLearnedInv
    <2>1. LearnedIn(baselines, y) = {d \in committed : LearnedKeyOf[d] = y}
      BY DEF PostgresInv, RowsLearnedInv
    <2>2. LearnedIn(baselines', y) = IF y = k THEN LearnedIn(baselines, y) \cup {c} ELSE LearnedIn(baselines, y)
      BY <1>7, <1>8 DEF LearnedIn
    <2>. QED
      BY <1>0, <1>1, <2>1, <2>2
  <1>. QED
    BY <1>9, <1>10, <1>11, <1>12 DEF PostgresInv

\* A transaction that is rolled back leaves the database as it was.
LEMMA RowsRollbackStep ==
  ASSUME Learned!CallsAssumption, PostgresInv, NEW c \in LearningCalls, Learned!Rollback(c)
  PROVE  PostgresInv'
  <1>1. /\ UNCHANGED <<versions, scoped, baselines, processes, returned, committed, original>> /\ Learned!Release(c)
        /\ callPc[c] = "locked"
        /\ callPc' = [callPc EXCEPT ![c] = "ended"] /\ read' = [read EXCEPT ![c] = None]
    BY DEF Learned!Rollback, Learned!database
  <1>2. /\ DOMAIN callPc' = LearningCalls /\ DOMAIN read' = LearningCalls /\ DOMAIN rowLock' = LearnedKeys /\ RowsLockInv'
    BY <1>1, RowsOthersKeep
  <1>3. RowsPlaceInv'
    BY <1>1, <1>2 DEF PostgresInv, RowsPlaceInv
  <1>4. RowsLayoutInv'
    BY <1>1 DEF PostgresInv, RowsLayoutInv, UnknownDatabase, Learned!NoRows, Learned!SchemaVersion, ServingNow
  <1>5. RowsLearnedInv'
    BY <1>1 DEF PostgresInv, RowsLearnedInv
  <1>. QED
    BY <1>2, <1>3, <1>4, <1>5 DEF PostgresInv

\* A step that touches nothing.
LEMMA RowsStutterStep == ASSUME PostgresInv, UNCHANGED Learned!vars PROVE PostgresInv'
  <1>1. RowsPlaceInv'
    BY DEF Learned!vars, PostgresInv, RowsPlaceInv
  <1>2. RowsLayoutInv'
    BY DEF Learned!vars, PostgresInv, RowsLayoutInv, UnknownDatabase, Learned!NoRows, Learned!SchemaVersion, ServingNow
  <1>3. RowsLockInv'
    BY DEF Learned!vars, PostgresInv, RowsLockInv, SeenRow, ServingNow
  <1>4. RowsLearnedInv'
    BY DEF Learned!vars, PostgresInv, RowsLearnedInv, LearnedIn
  <1>. QED
    BY <1>1, <1>2, <1>3, <1>4 DEF PostgresInv

-----------------------------------------------------------------------------

\* Every step keeps the invariant.
LEMMA PostgresStep == ASSUME Learned!CallsAssumption, PostgresInv, [Learned!Next]_(Learned!vars) PROVE PostgresInv'
  <1>1. CASE UNCHANGED Learned!vars
    BY <1>1, RowsStutterStep
  <1>2. ASSUME NEW p \in LearningProcesses, Learned!pg_advisory_xact_lock(p) \/ Learned!Migrate(p) \/ Learned!MigrateFails(p)
        PROVE  PostgresInv'
    BY <1>2, RowsWaitStep, RowsMigrateStep
  <1>3. ASSUME NEW c \in LearningCalls, Learned!LockRow(c) \/ Learned!Commit(c) \/ Learned!Rollback(c) PROVE PostgresInv'
    BY <1>3, RowsLockStep, RowsCommitStep, RowsRollbackStep
  <1>. QED
    BY <1>1, <1>2, <1>3 DEF Learned!Next

\* What each transaction read under its lock is still the row it will replace,
\* and nobody serves a database of another layout (Migrate, Observe).
THEOREM PostgresInvariant == ASSUME Learned!CallsAssumption PROVE Learned!Spec => []PostgresInv
  <1>1. Learned!Init => PostgresInv
    BY RowsInit
  <1>2. PostgresInv /\ [Learned!Next]_(Learned!vars) => PostgresInv'
    BY PostgresStep
  <1>. QED
    BY <1>1, <1>2, PTL DEF Learned!Spec

\* What the invariant says of the stored baselines.
LEMMA PostgresInvIsRight == ASSUME PostgresInv PROVE Learned!StoredBaselinesAreRight
  <1>1. UnknownDatabase(original.versions, original.rows) =>
          /\ original = [versions |-> versions, rows |-> baselines, scoped |-> scoped]
          /\ \A p \in LearningProcesses : processes[p] # "serving"
    BY DEF PostgresInv, RowsLayoutInv, ServingNow
  <1>2. (\E p \in LearningProcesses : processes[p] = "serving") =>
          versions = {Learned!SchemaVersion} /\ scoped /\ \A k \in Learned!Held : baselines[k].stamp = Learned!SchemaVersion
    BY DEF PostgresInv, RowsLayoutInv, ServingNow, Learned!Held
  <1>3. \A k \in Learned!Held : baselines[k].observations = Learned!Cardinality(baselines[k].learned)
    BY RowParts DEF Learned!Held, PostgresInv, RowsPlaceInv
  <1>4. \A k \in LearnedKeys : (IF baselines[k] = None THEN {} ELSE baselines[k].learned) = {c \in committed : LearnedKeyOf[c] = k}
    BY DEF PostgresInv, RowsLearnedInv, LearnedIn
  <1>. QED
    BY <1>1, <1>2, <1>3, <1>4 DEF Learned!StoredBaselinesAreRight, PostgresInv, RowsPlaceInv, UnknownDatabase

\* The learned state in PostgreSQL is right whatever raced: an unknown database
\* is left as it was found, each row holds exactly the calls whose commit took
\* place, and no process serves but on the current layout (Migrate, Observe).
THEOREM BaselinesRight == ASSUME Learned!CallsAssumption PROVE Learned!Spec => []Learned!StoredBaselinesAreRight
  <1>1. PostgresInv => Learned!StoredBaselinesAreRight
    BY PostgresInvIsRight
  <1>. QED
    BY <1>1, PostgresInvariant, PTL

-----------------------------------------------------------------------------
(* What is promised of any store. *)

\* What the rows have learned, key by key.
LearnedRows(r) == [k \in LearnedKeys |-> LearnedIn(r, k)]

\* Only a commit changes what is learned or acknowledged, and it adds its call
\* to what its key has.
LEMMA RowsStoreSteps ==
  ASSUME Learned!CallsAssumption, PostgresInv, [Learned!Next]_(Learned!vars)
  PROVE  [Learned!Store!Save]_(Learned!Store!svars)
  <1>0. /\ Learned!Store!svars = <<LearnedRows(baselines), returned>>
        /\ Learned!Store!svars' = <<LearnedRows(baselines'), returned'>>
    BY DEF Learned!Store!svars, LearnedRows, LearnedIn
  <1>1. PostgresInv'
    <2>1. CASE UNCHANGED Learned!vars
      BY <2>1, RowsStutterStep
    <2>2. CASE Learned!Next
      BY <2>2, RowsWaitStep, RowsMigrateStep, RowsLockStep, RowsCommitStep, RowsRollbackStep DEF Learned!Next
    <2>. QED
      BY <2>1, <2>2
  <1>2. ASSUME \A k \in LearnedKeys : LearnedIn(baselines', k) = LearnedIn(baselines, k), returned' = returned
        PROVE  UNCHANGED Learned!Store!svars
    <2>1. LearnedRows(baselines') = LearnedRows(baselines)
      BY <1>2 DEF LearnedRows
    <2>. QED
      BY <1>0, <1>2, <2>1
  <1>3. ASSUME baselines' = baselines, returned' = returned PROVE UNCHANGED Learned!Store!svars
    BY <1>2, <1>3
  <1>4. CASE UNCHANGED Learned!vars
    BY <1>3, <1>4 DEF Learned!vars
  <1>5. ASSUME NEW p \in LearningProcesses, Learned!pg_advisory_xact_lock(p) \/ Learned!MigrateFails(p)
        PROVE  UNCHANGED Learned!Store!svars
    BY <1>3, <1>5 DEF Learned!pg_advisory_xact_lock, Learned!MigrateFails, Learned!database, Learned!ghosts
  <1>6. ASSUME NEW p \in LearningProcesses, Learned!Migrate(p) PROVE UNCHANGED Learned!Store!svars
    <2>1. \A k \in LearnedKeys : LearnedIn(baselines', k) = LearnedIn(baselines, k)
      BY <1>6, MigrateRows
    <2>2. returned' = returned
      BY <1>6 DEF Learned!Migrate, Learned!ghosts
    <2>. QED
      BY <1>2, <2>1, <2>2
  <1>7. ASSUME NEW c \in LearningCalls, Learned!LockRow(c) \/ Learned!Rollback(c) PROVE UNCHANGED Learned!Store!svars
    BY <1>3, <1>7 DEF Learned!LockRow, Learned!Rollback, Learned!database, Learned!ghosts
  <1>8. ASSUME NEW c \in LearningCalls, Learned!Commit(c) PROVE Learned!Store!Save
    <2>1. /\ committed' = committed \cup {c} /\ LearnedKeyOf[c] \in LearnedKeys
          /\ returned' = returned \/ returned' = returned \cup {c}
      BY <1>8 DEF Learned!Commit, Learned!CallsAssumption
    <2>2. \A k \in LearnedKeys : /\ LearnedIn(baselines, k) = {d \in committed : LearnedKeyOf[d] = k}
                                 /\ LearnedIn(baselines', k) = {d \in committed' : LearnedKeyOf[d] = k}
      BY <1>1 DEF PostgresInv, RowsLearnedInv
    <2>3. committed' \subseteq LearningCalls
      BY <1>1 DEF PostgresInv, RowsPlaceInv
    <2>4. LearnedRows(baselines') \in [LearnedKeys -> SUBSET LearningCalls]
      BY <2>2, <2>3 DEF LearnedRows
    <2>5. \A k \in LearnedKeys : /\ LearnedRows(baselines)[k] \subseteq LearnedRows(baselines')[k]
                                 /\ \A d \in LearnedRows(baselines')[k] : LearnedKeyOf[d] = k
      BY <2>1, <2>2 DEF LearnedRows
    <2>6. c \in LearnedRows(baselines')[LearnedKeyOf[c]]
      BY <2>1, <2>2 DEF LearnedRows
    <2>. QED
      BY <2>1, <2>4, <2>5, <2>6 DEF Learned!Store!Save, LearnedRows, LearnedIn
  <1>. QED
    BY <1>4, <1>5, <1>6, <1>7, <1>8 DEF Learned!Next

\* The table implements LearnedStore, however processes start, race and lose
\* answers (Migrate, Observe).
THEOREM PostgresIsAStore == ASSUME Learned!CallsAssumption PROVE Learned!Spec => Learned!ImplementsStore
  <1>1. Learned!Init => Learned!Store!SInit
    <2> SUFFICES ASSUME Learned!Init PROVE Learned!Store!SInit
      OBVIOUS
    <2>1. committed = {} /\ returned = {} /\ RowsLearnedInv
      BY RowsInit DEF Learned!Init, PostgresInv
    <2>. QED
      BY <2>1 DEF Learned!Store!SInit, RowsLearnedInv, LearnedIn
  <1>2. PostgresInv /\ [Learned!Next]_(Learned!vars) => [Learned!Store!Save]_(Learned!Store!svars)
    BY RowsStoreSteps
  <1>. QED
    BY <1>1, <1>2, PostgresInvariant, PTL DEF Learned!Spec, Learned!ImplementsStore, Learned!Store!SSpec

-----------------------------------------------------------------------------
(* The same of the run.                                                     *)

(* Learned rows hold exactly the calls whose commit took place, on the        *)
(* current layout, whatever raced or was lost (internal/store/postgres).      *)
THEOREM LearnedRowsRight == EvidenceSpec => []StoredBaselinesAreRight
  <1> DEFINE PartInv == part = "learned" => PostgresInv
  <1>1. EvidenceInit => PartInv
    BY RowsInit, PartsAssumption DEF EvidenceInit
  <1>2. PartInv /\ [EvidenceNext]_all => PartInv'
    <2> SUFFICES ASSUME PartInv, [EvidenceNext]_all, part = "learned" PROVE PostgresInv'
      BY PartStays
    <2>1. [Learned!Next]_(Learned!vars)
      BY DEF EvidenceNext, all, pgVars, Learned!vars
    <2>. QED
      BY <2>1, PostgresStep, PartsAssumption
  <1>3. PartInv => StoredBaselinesAreRight
    BY PostgresInvIsRight DEF StoredBaselinesAreRight
  <1>. QED
    BY <1>1, <1>2, <1>3, PTL DEF EvidenceSpec

-----------------------------------------------------------------------------
(* The schemas of the two databases, for any number of processes that open   *)
(* one, of crashes and of lock timeouts.                                      *)

\* The object that the step from version v adds.
Added == <<"ingest_state", "environments", "promotions", "v5_indexes", "aggregate_operational",
           "observations", "promotion_gate", "scenarios", "recency", "entry_operational",
           "scenario_provenance", "entry_fidelity", "scenario_gate", "scenario_producer">>

OpenSteps == {"idle", "verify", "refused", "create", "opened", "require", "chain", "recover"}

SchemaTypes ==
    /\ backend \in {"sqlite", "postgres"} /\ stamp \in 0..16 /\ fresh \in BOOLEAN
    /\ openPc \in [Openers -> OpenSteps] /\ at \in [Openers -> 0..16]

\* What databases are found.
BornInv ==
    /\ born.stamp \in 0..16
    /\ born.has # {} => "core" \in born.has
    /\ born.stamp = 16 => born.has # {}
    /\ backend = "postgres" => Schema!Sound

UnknownSchema == born.stamp = 16 \/ (born.stamp = 0 /\ born.has # {})

\* An unknown database is left alone.
UnknownInv ==
    /\ UnknownSchema => /\ stamp = born.stamp /\ has = born.has
                        /\ \A x \in Openers : openPc[x] \in {"idle", "verify", "refused"}
    /\ ~UnknownSchema => stamp <= 15

\* What has been stamped is there, and what is not there has not been stamped.
DatabaseInv ==
    /\ born.stamp <= stamp
    /\ \A u \in 1..14 : born.stamp <= u /\ u < stamp => Added[u] \in has
    /\ \A u \in 1..14 : u < stamp => u \in filled
    /\ Schema!Sound => has = Schema!WholeAt(stamp)
    /\ fresh => stamp = 15
    /\ lost = {}

\* An opener has never got ahead of the stamp, nor beyond tables it has seen.
OpenerInv(x) ==
    /\ openPc[x] = "verify" /\ Schema!Sound => stamp >= 1
    /\ openPc[x] \in {"require", "chain", "recover"} =>
          1 <= at[x] /\ born.stamp <= at[x] /\ at[x] <= stamp
    /\ openPc[x] \in {"chain", "recover"} => at[x] <= 14 /\ Schema!schemaTablesV(at[x]) \subseteq has
    /\ openPc[x] = "opened" => stamp = 15 /\ Schema!schemaTablesV(15) \subseteq has
    /\ openPc[x] = "recover" /\ Schema!Sound /\ x \notin faulted => at[x] < stamp
    /\ openPc[x] = "refused" /\ Schema!Sound /\ born.stamp <= 15 => x \in faulted
    /\ backend = "postgres" => openPc[x] \in {"idle", "opened", "refused"}

SchemaInv ==
    SchemaTypes /\ BornInv /\ UnknownInv /\ DatabaseInv /\ \A x \in Openers : OpenerInv(x)

\* The version each object comes with.
Rank == [ingest_state |-> 1, environments |-> 2, promotions |-> 3, v5_indexes |-> 4,
         aggregate_operational |-> 5, observations |-> 6, promotion_gate |-> 7,
         scenarios |-> 8, recency |-> 9, entry_operational |-> 10,
         scenario_provenance |-> 11, entry_fidelity |-> 12, scenario_gate |-> 13,
         scenario_producer |-> 14, version |-> 0, core |-> 0]

\* The step from a version adds one object.
LEMMA StepAdds == ASSUME NEW v \in 1..14 PROVE Schema!Step[v].adds = {Added[v]}
  <1>1. \/ v = 1 \/ v = 2 \/ v = 3 \/ v = 4 \/ v = 5 \/ v = 6 \/ v = 7
        \/ v = 8 \/ v = 9 \/ v = 10 \/ v = 11 \/ v = 12 \/ v = 13 \/ v = 14
    OBVIOUS
  <1>. QED
    BY <1>1 DEF Schema!Step, Added, Schema!V1ToV2, Schema!V2ToV3, Schema!V3ToV4, Schema!V4ToV5,
       Schema!V5ToV6, Schema!V6ToV7, Schema!V7ToV8, Schema!V8ToV9, Schema!V9ToV10,
       Schema!V10ToV11, Schema!V11ToV12, Schema!V12ToV13, Schema!V13ToV14, Schema!V14ToV15

\* No two steps add the same one.
LEMMA AddedRank == ASSUME NEW v \in 1..14 PROVE Rank[Added[v]] = v
  <1>1. \/ v = 1 \/ v = 2 \/ v = 3 \/ v = 4 \/ v = 5 \/ v = 6 \/ v = 7
        \/ v = 8 \/ v = 9 \/ v = 10 \/ v = 11 \/ v = 12 \/ v = 13 \/ v = 14
    OBVIOUS
  <1>. QED
    BY <1>1 DEF Rank, Added

\* The objects of a version are the first ones and those of the steps to it.
LEMMA ObjectsOfVersion ==
  ASSUME NEW v \in 1..15
  PROVE  Schema!ObjectsOf(v) = {"version", "core"} \cup {Added[u] : u \in 1..(v - 1)}
  <1>1. \A u \in 1..(v - 1) : Schema!Step[u].adds = {Added[u]}
    BY StepAdds
  <1>2. UNION {Schema!Step[u].adds : u \in 1..(v - 1)} = {Added[u] : u \in 1..(v - 1)}
    BY <1>1
  <1>. QED
    BY <1>2 DEF Schema!ObjectsOf, Schema!V1

\* What of a version's objects the invariants need.
LEMMA Objects ==
  /\ Schema!ObjectsOf(0) = {}
  /\ \A v \in 1..15 : "version" \in Schema!ObjectsOf(v) /\ "core" \in Schema!ObjectsOf(v)
  /\ \A v \in 1..14 : Schema!ObjectsOf(v + 1) = Schema!ObjectsOf(v) \cup {Added[v]}
  /\ \A u \in 1..14, v \in 1..15 : Added[u] \in Schema!ObjectsOf(v) <=> u < v
  /\ \A u, v \in 0..15 : u <= v => Schema!ObjectsOf(u) \subseteq Schema!ObjectsOf(v)
  <1>1. Schema!ObjectsOf(0) = {}
    BY DEF Schema!ObjectsOf
  <1>2. \A v \in 1..15 : "version" \in Schema!ObjectsOf(v) /\ "core" \in Schema!ObjectsOf(v)
    BY ObjectsOfVersion
  <1>3. ASSUME NEW v \in 1..14 PROVE Schema!ObjectsOf(v + 1) = Schema!ObjectsOf(v) \cup {Added[v]}
    <2>1. v + 1 \in 1..15 /\ v \in 1..15 /\ 1..((v + 1) - 1) = 1..(v - 1) \cup {v}
      OBVIOUS
    <2>. QED
      BY <2>1, ObjectsOfVersion
  <1>4. ASSUME NEW u \in 1..14, NEW v \in 1..15 PROVE Added[u] \in Schema!ObjectsOf(v) <=> u < v
    <2>1. Added[u] # "version" /\ Added[u] # "core"
      BY AddedRank DEF Rank
    <2>2. ASSUME NEW w \in 1..14, Added[w] = Added[u] PROVE w = u
      BY <2>2, AddedRank
    <2>. QED
      BY <2>1, <2>2, ObjectsOfVersion
  <1>5. ASSUME NEW u \in 0..15, NEW v \in 0..15, u <= v
        PROVE  Schema!ObjectsOf(u) \subseteq Schema!ObjectsOf(v)
    <2>1. CASE u = 0
      BY <2>1, <1>1
    <2>2. CASE u # 0
      <3>1. u \in 1..15 /\ v \in 1..15 /\ 1..(u - 1) \subseteq 1..(v - 1)
        BY <1>5, <2>2
      <3>. QED
        BY <3>1, ObjectsOfVersion
    <2>. QED
      BY <2>1, <2>2
  <1>. QED
    BY <1>1, <1>2, <1>3, <1>4, <1>5

\* The tables of a version are those that come with it or before it.
LEMMA TablesOfVersion ==
  ASSUME NEW v \in 1..15
  PROVE  Schema!schemaTablesV(v) = {t \in Schema!Tables : Rank[t] < v}
  <1>1. \A u \in 1..14 : Added[u] \in Schema!ObjectsOf(v) <=> u < v
    BY Objects
  <1>2. Added[1] = "ingest_state" /\ Added[2] = "environments" /\ Added[3] = "promotions"
        /\ Added[6] = "observations" /\ Added[8] = "scenarios"
    BY DEF Added
  <1>3. /\ "ingest_state" \in Schema!ObjectsOf(v) <=> 1 < v
        /\ "environments" \in Schema!ObjectsOf(v) <=> 2 < v
        /\ "promotions" \in Schema!ObjectsOf(v) <=> 3 < v
        /\ "observations" \in Schema!ObjectsOf(v) <=> 6 < v
        /\ "scenarios" \in Schema!ObjectsOf(v) <=> 8 < v
        /\ "version" \in Schema!ObjectsOf(v) /\ "core" \in Schema!ObjectsOf(v)
    BY <1>1, <1>2, Objects
  <1>4. \A t \in Schema!Tables : t \in Schema!ObjectsOf(v) <=> Rank[t] < v
    BY <1>3 DEF Schema!Tables, Schema!V1, Rank
  <1>. QED
    BY <1>4 DEF Schema!schemaTablesV

\* A whole database holds the objects of its version, a newer one those of the last.
LEMMA WholeObjects ==
  /\ \A v \in 0..15 : Schema!WholeAt(v) = Schema!ObjectsOf(v)
  /\ Schema!WholeAt(16) = Schema!ObjectsOf(15)
  BY DEF Schema!WholeAt, Schema!SchemaVersion

\* What a version needs of the tables, the later ones need too.
LEMMA TablesGrow ==
  /\ \A u, v \in 0..15 : u <= v => Schema!schemaTablesV(u) \subseteq Schema!ObjectsOf(v)
  /\ \A v \in 1..14 : \A S : Schema!schemaTablesV(v) \subseteq S
         => Schema!schemaTablesV(v + 1) \subseteq S \cup {Added[v]}
  BY Objects DEF Schema!schemaTablesV

(* PostgreSQL reads the version of a whole database off its tables and its   *)
(* stamp, and refuses a newer one.                                           *)
LEMMA StartsRight ==
  ASSUME stamp \in 1..16, has = Schema!WholeAt(stamp)
  PROVE  Schema!StartsFrom = IF stamp = 16 THEN 0 ELSE stamp
  <1> DEFINE w == IF stamp = 16 THEN 15 ELSE stamp
  <1>1. w \in 1..15 /\ has = Schema!ObjectsOf(w)
    BY WholeObjects
  <1>2. Schema!present = {t \in Schema!Tables : Rank[t] < w}
    BY <1>1, TablesOfVersion DEF Schema!present, Schema!schemaTablesV
  <1>3. /\ Rank["ingest_state"] = 1 /\ Rank["environments"] = 2 /\ Rank["promotions"] = 3
        /\ Rank["observations"] = 6 /\ Rank["scenarios"] = 8
        /\ Rank["version"] = 0 /\ Rank["core"] = 0
    BY DEF Rank
  <1>4. \A t \in Schema!Tables : \/ t = "ingest_state" \/ t = "environments" \/ t = "promotions"
                                 \/ t = "observations" \/ t = "scenarios" \/ t = "version" \/ t = "core"
    BY DEF Schema!Tables, Schema!V1
  <1>5. /\ "ingest_state" \in Schema!Tables /\ "environments" \in Schema!Tables
        /\ "promotions" \in Schema!Tables /\ "observations" \in Schema!Tables
        /\ "scenarios" \in Schema!Tables
    BY DEF Schema!Tables, Schema!V1
  <1>6. \A t \in Schema!Tables : Rank[t] \in {0, 1, 2, 3, 6, 8}
    BY <1>3, <1>4
  <1>7. ASSUME NEW k \in {1, 2, 3, 6, 8, 15}
        PROVE  Schema!Exactly(k) <=> \A r \in {1, 2, 3, 6, 8} : r < k <=> r < w
    <2>1. Schema!schemaTablesV(k) = {t \in Schema!Tables : Rank[t] < k}
      BY TablesOfVersion
    <2>2. Schema!Exactly(k) <=> \A t \in Schema!Tables : Rank[t] < k <=> Rank[t] < w
      BY <1>2, <2>1 DEF Schema!Exactly
    <2>3. ASSUME \A t \in Schema!Tables : Rank[t] < k <=> Rank[t] < w
          PROVE  \A r \in {1, 2, 3, 6, 8} : r < k <=> r < w
      BY <2>3, <1>3, <1>5
    <2>4. ASSUME \A r \in {1, 2, 3, 6, 8} : r < k <=> r < w, NEW t \in Schema!Tables
          PROVE  Rank[t] < k <=> Rank[t] < w
      BY <2>4, <1>6, <1>1
    <2>. QED
      BY <2>2, <2>3, <2>4
  <1>8. /\ Schema!Exactly(1) <=> w = 1
        /\ Schema!Exactly(2) <=> w = 2
        /\ Schema!Exactly(3) <=> w = 3
        /\ Schema!Exactly(6) <=> w \in 4..6
        /\ Schema!Exactly(8) <=> w \in 7..8
        /\ Schema!Exactly(15) <=> w \in 9..15
    BY <1>1, <1>7
  <1>. QED
    BY <1>8 DEF Schema!StartsFrom, Schema!verifyPostgresVersion, Schema!SchemaVersion

\* What a found database looks like.
LEMMA SchemaBorn == ASSUME Schema!BackendAssumption, Schema!Init PROVE BornInv
  <1>1. /\ backend \in {"sqlite", "postgres"}
        /\ born \in Schema!Kept \/ (backend = "sqlite" /\ born \in Schema!Contradictory)
    BY DEF Schema!Init, Schema!BackendAssumption
  <1>2. ASSUME born \in Schema!Kept PROVE BornInv
    <2>1. PICK v \in 0..16 : born = [stamp |-> v, has |-> Schema!WholeAt(v)]
      BY <1>2 DEF Schema!Kept, Schema!Found, Schema!SchemaVersion
    <2>2. born.stamp = v /\ born.has = Schema!WholeAt(v)
      BY <2>1
    <2>3. Schema!Sound
      BY <2>2 DEF Schema!Sound
    <2>4. v \in 1..16 => "core" \in Schema!WholeAt(v)
      BY Objects, WholeObjects
    <2>5. Schema!WholeAt(0) = {}
      BY Objects, WholeObjects
    <2>. QED
      BY <2>2, <2>3, <2>4, <2>5 DEF BornInv
  <1>3. ASSUME backend = "sqlite", born \in Schema!Contradictory PROVE BornInv
    <2>1. /\ born.stamp \in 0..16
          /\ "core" \in born.has
      <3>1. \A v \in 1..15 : "core" \in Schema!ObjectsOf(v)
        BY Objects
      <3>2. CASE \E s \in 0..16, v \in 1..15 : born = [stamp |-> s, has |-> Schema!ObjectsOf(v)]
        BY <3>1, <3>2
      <3>3. CASE \E v \in 1..15 : born = [stamp |-> 0, has |-> Schema!ObjectsOf(v) \ {"version"}]
        BY <3>1, <3>3
      <3>4. CASE \E gone \in SUBSET {"observations", "promotions", "scenarios"} :
                    born = [stamp |-> 15, has |-> Schema!Without(gone)]
        <4>1. PICK gone \in SUBSET {"observations", "promotions", "scenarios"} :
                    born = [stamp |-> 15, has |-> Schema!Without(gone)]
          BY <3>4
        <4>2. \A t \in gone : "core" \notin Schema!ColumnsOf[t]
          BY DEF Schema!ColumnsOf
        <4>3. "core" \in Schema!Without(gone)
          BY <3>1, <4>2 DEF Schema!Without, Schema!SchemaVersion
        <4>. QED
          BY <4>1, <4>3
      <3>. QED
        BY <1>3, <3>2, <3>3, <3>4 DEF Schema!Contradictory, Schema!Found, Schema!SchemaVersion, Schema!Versions
    <2>. QED
      BY <2>1, <1>3 DEF BornInv
  <1>. QED
    BY <1>1, <1>2, <1>3

\* Nobody has opened it yet.
LEMMA SchemaInit == ASSUME Schema!BackendAssumption, Schema!Init PROVE SchemaInv
  <1>1. BornInv
    BY SchemaBorn
  <1>2. SchemaTypes
    <2>1. backend \in {"sqlite", "postgres"} /\ stamp \in 0..16 /\ fresh = FALSE
      BY <1>1 DEF Schema!Init, Schema!BackendAssumption, BornInv
    <2>2. openPc \in [Openers -> OpenSteps] /\ at \in [Openers -> 0..16]
      BY DEF Schema!Init, OpenSteps
    <2>. QED
      BY <2>1, <2>2 DEF SchemaTypes
  <1>3. UnknownInv
    BY <1>1 DEF Schema!Init, UnknownInv, BornInv, UnknownSchema
  <1>4. DatabaseInv
    BY <1>1 DEF Schema!Init, DatabaseInv, BornInv, Schema!Sound, Schema!SchemaVersion
  <1>5. \A x \in Openers : OpenerInv(x)
    BY DEF Schema!Init, OpenerInv
  <1>. QED
    BY <1>1, <1>2, <1>3, <1>4, <1>5 DEF SchemaInv

\* What a whole database holds.
LEMMA Whole ==
  /\ Schema!WholeAt(0) = {}
  /\ \A v \in 1..16 : "version" \in Schema!WholeAt(v) /\ "core" \in Schema!WholeAt(v)
  /\ \A u \in 1..15, v \in 1..16 : u <= v => Schema!schemaTablesV(u) \subseteq Schema!WholeAt(v)
  /\ \A u, v \in 1..15 : u <= v => Schema!schemaTablesV(u) \subseteq Schema!schemaTablesV(v)
  <1>1. \A u, v \in 1..15 : u <= v => Schema!schemaTablesV(u) \subseteq Schema!schemaTablesV(v)
    BY TablesGrow DEF Schema!schemaTablesV
  <1>2. ASSUME NEW u \in 1..15, NEW v \in 1..16, u <= v
        PROVE  Schema!schemaTablesV(u) \subseteq Schema!WholeAt(v)
    <2>1. CASE v = 16
      BY <2>1, WholeObjects, TablesGrow
    <2>2. CASE v # 16
      BY <1>2, <2>2, WholeObjects, TablesGrow
    <2>. QED
      BY <2>1, <2>2
  <1>3. Schema!WholeAt(0) = {}
    BY Objects, WholeObjects
  <1>4. \A v \in 1..16 : "version" \in Schema!WholeAt(v) /\ "core" \in Schema!WholeAt(v)
    BY Objects, WholeObjects
  <1>. QED
    BY <1>1, <1>2, <1>3, <1>4

\* Which tables are there decides between verifying, refusing and creating.
LEMMA SchemaTablesPresent ==
  ASSUME SchemaInv, NEW x \in Openers, Schema!tablesPresent(x) PROVE SchemaInv'
  <1>1. /\ born' = born /\ backend' = backend /\ has' = has /\ stamp' = stamp
        /\ filled' = filled /\ lost' = lost /\ (Schema!Sound' <=> Schema!Sound)
    BY DEF Schema!tablesPresent, Schema!Goto, Schema!Database, Schema!Tables, Schema!V1, Schema!Sound
  <1>2. SchemaTypes'
    BY <1>1 DEF Schema!tablesPresent, Schema!Goto, Schema!Database, Schema!Tables, Schema!V1, SchemaInv, SchemaTypes, OpenSteps
  <1>3. BornInv'
    BY <1>1 DEF SchemaInv, BornInv
  <1>4. UnknownInv'
    BY <1>1 DEF Schema!tablesPresent, Schema!Goto, Schema!Database, Schema!Tables, Schema!V1, SchemaInv, SchemaTypes, BornInv, UnknownInv, UnknownSchema, OpenerInv
  <1>5. DatabaseInv'
    BY <1>1 DEF Schema!tablesPresent, Schema!Goto, Schema!Database, Schema!Tables, Schema!V1, SchemaInv, SchemaTypes, DatabaseInv, OpenerInv
  <1>6. ASSUME NEW y \in Openers PROVE OpenerInv(y)'
    BY <1>1, Whole DEF Schema!tablesPresent, Schema!Goto, Schema!Database, Schema!Tables, Schema!V1, SchemaInv, SchemaTypes, BornInv, UnknownInv, UnknownSchema, DatabaseInv, OpenerInv
  <1>. QED
    BY <1>2, <1>3, <1>4, <1>5, <1>6 DEF SchemaInv

\* The stamp is read.
LEMMA SchemaStoredSchemaVersion ==
  ASSUME SchemaInv, NEW x \in Openers, Schema!storedSchemaVersion(x) PROVE SchemaInv'
  <1>1. /\ born' = born /\ backend' = backend /\ has' = has /\ stamp' = stamp
        /\ filled' = filled /\ lost' = lost /\ (Schema!Sound' <=> Schema!Sound)
    BY DEF Schema!storedSchemaVersion, Schema!Goto, Schema!Database, Schema!Versions, Schema!SchemaVersion, Schema!Sound
  <1>2. SchemaTypes'
    BY <1>1 DEF Schema!storedSchemaVersion, Schema!Goto, Schema!Database, Schema!Versions, Schema!SchemaVersion, SchemaInv, SchemaTypes, OpenSteps
  <1>3. BornInv'
    BY <1>1 DEF SchemaInv, BornInv
  <1>4. UnknownInv'
    BY <1>1 DEF Schema!storedSchemaVersion, Schema!Goto, Schema!Database, Schema!Versions, Schema!SchemaVersion, SchemaInv, SchemaTypes, BornInv, UnknownInv, UnknownSchema, OpenerInv
  <1>5. DatabaseInv'
    BY <1>1 DEF Schema!storedSchemaVersion, Schema!Goto, Schema!Database, Schema!Versions, Schema!SchemaVersion, SchemaInv, SchemaTypes, DatabaseInv, OpenerInv
  <1>6. ASSUME NEW y \in Openers PROVE OpenerInv(y)'
    BY <1>1, Whole DEF Schema!storedSchemaVersion, Schema!Goto, Schema!Database, Schema!Versions, Schema!SchemaVersion, SchemaInv, SchemaTypes, BornInv, UnknownInv, UnknownSchema, DatabaseInv, OpenerInv
  <1>. QED
    BY <1>2, <1>3, <1>4, <1>5, <1>6 DEF SchemaInv

\* The tables must bear it out.
LEMMA SchemaRequireTables ==
  ASSUME SchemaInv, NEW x \in Openers, Schema!requireTables(x) PROVE SchemaInv'
  <1>1. /\ born' = born /\ backend' = backend /\ has' = has /\ stamp' = stamp
        /\ filled' = filled /\ lost' = lost /\ (Schema!Sound' <=> Schema!Sound)
    BY DEF Schema!requireTables, Schema!Goto, Schema!Database, Schema!SchemaVersion, Schema!Sound
  <1>2. SchemaTypes'
    BY <1>1 DEF Schema!requireTables, Schema!Goto, Schema!Database, Schema!SchemaVersion, SchemaInv, SchemaTypes, OpenSteps
  <1>3. BornInv'
    BY <1>1 DEF SchemaInv, BornInv
  <1>4. UnknownInv'
    BY <1>1 DEF Schema!requireTables, Schema!Goto, Schema!Database, Schema!SchemaVersion, SchemaInv, SchemaTypes, BornInv, UnknownInv, UnknownSchema, OpenerInv
  <1>5. DatabaseInv'
    BY <1>1 DEF Schema!requireTables, Schema!Goto, Schema!Database, Schema!SchemaVersion, SchemaInv, SchemaTypes, DatabaseInv, OpenerInv
  <1>6. ASSUME NEW y \in Openers PROVE OpenerInv(y)'
    BY <1>1, Whole DEF Schema!requireTables, Schema!Goto, Schema!Database, Schema!SchemaVersion, SchemaInv, SchemaTypes, BornInv, UnknownInv, UnknownSchema, DatabaseInv, OpenerInv
  <1>. QED
    BY <1>2, <1>3, <1>4, <1>5, <1>6 DEF SchemaInv

\* A lock timeout.
LEMMA SchemaBusy ==
  ASSUME SchemaInv, NEW x \in Openers, Schema!Busy(x) PROVE SchemaInv'
  <1>1. /\ born' = born /\ backend' = backend /\ has' = has /\ stamp' = stamp
        /\ filled' = filled /\ lost' = lost /\ (Schema!Sound' <=> Schema!Sound)
    BY DEF Schema!Busy, Schema!Goto, Schema!Database, Schema!Sound
  <1>2. SchemaTypes'
    BY <1>1 DEF Schema!Busy, Schema!Goto, Schema!Database, SchemaInv, SchemaTypes, OpenSteps
  <1>3. BornInv'
    BY <1>1 DEF SchemaInv, BornInv
  <1>4. UnknownInv'
    BY <1>1 DEF Schema!Busy, Schema!Goto, Schema!Database, SchemaInv, SchemaTypes, BornInv, UnknownInv, UnknownSchema, OpenerInv
  <1>5. DatabaseInv'
    BY <1>1 DEF Schema!Busy, Schema!Goto, Schema!Database, SchemaInv, SchemaTypes, DatabaseInv, OpenerInv
  <1>6. ASSUME NEW y \in Openers PROVE OpenerInv(y)'
    BY <1>1, Whole DEF Schema!Busy, Schema!Goto, Schema!Database, SchemaInv, SchemaTypes, BornInv, UnknownInv, UnknownSchema, DatabaseInv, OpenerInv
  <1>. QED
    BY <1>2, <1>3, <1>4, <1>5, <1>6 DEF SchemaInv

\* A step that failed is looked at again.
LEMMA SchemaRecover ==
  ASSUME SchemaInv, NEW x \in Openers, Schema!Recover(x) PROVE SchemaInv'
  <1>1. /\ born' = born /\ backend' = backend /\ has' = has /\ stamp' = stamp
        /\ filled' = filled /\ lost' = lost /\ (Schema!Sound' <=> Schema!Sound)
    BY DEF Schema!Recover, Schema!Goto, Schema!Database, Schema!SchemaVersion, Schema!Versions, Schema!migrationRaceRecovered, Schema!Sound
  <1>2. SchemaTypes'
    BY <1>1 DEF Schema!Recover, Schema!Goto, Schema!Database, Schema!SchemaVersion, Schema!Versions, Schema!migrationRaceRecovered, SchemaInv, SchemaTypes, OpenSteps
  <1>3. BornInv'
    BY <1>1 DEF SchemaInv, BornInv
  <1>4. UnknownInv'
    BY <1>1 DEF Schema!Recover, Schema!Goto, Schema!Database, Schema!SchemaVersion, Schema!Versions, Schema!migrationRaceRecovered, SchemaInv, SchemaTypes, BornInv, UnknownInv, UnknownSchema, OpenerInv
  <1>5. DatabaseInv'
    BY <1>1 DEF Schema!Recover, Schema!Goto, Schema!Database, Schema!SchemaVersion, Schema!Versions, Schema!migrationRaceRecovered, SchemaInv, SchemaTypes, DatabaseInv, OpenerInv
  <1>6. ASSUME NEW y \in Openers PROVE OpenerInv(y)'
    BY <1>1, Whole DEF Schema!Recover, Schema!Goto, Schema!Database, Schema!SchemaVersion, Schema!Versions, Schema!migrationRaceRecovered, SchemaInv, SchemaTypes, BornInv, UnknownInv, UnknownSchema, DatabaseInv, OpenerInv
  <1>. QED
    BY <1>2, <1>3, <1>4, <1>5, <1>6 DEF SchemaInv

\* The one transaction fails.
LEMMA SchemaPostgresFails ==
  ASSUME SchemaInv, NEW x \in Openers, Schema!PostgresFails(x) PROVE SchemaInv'
  <1>1. /\ born' = born /\ backend' = backend /\ has' = has /\ stamp' = stamp
        /\ filled' = filled /\ lost' = lost /\ (Schema!Sound' <=> Schema!Sound)
    BY DEF Schema!PostgresFails, Schema!Goto, Schema!Database, Schema!Sound
  <1>2. SchemaTypes'
    BY <1>1 DEF Schema!PostgresFails, Schema!Goto, Schema!Database, SchemaInv, SchemaTypes, OpenSteps
  <1>3. BornInv'
    BY <1>1 DEF SchemaInv, BornInv
  <1>4. UnknownInv'
    BY <1>1 DEF Schema!PostgresFails, Schema!Goto, Schema!Database, SchemaInv, SchemaTypes, BornInv, UnknownInv, UnknownSchema, OpenerInv
  <1>5. DatabaseInv'
    BY <1>1 DEF Schema!PostgresFails, Schema!Goto, Schema!Database, SchemaInv, SchemaTypes, DatabaseInv, OpenerInv
  <1>6. ASSUME NEW y \in Openers PROVE OpenerInv(y)'
    BY <1>1, Whole DEF Schema!PostgresFails, Schema!Goto, Schema!Database, SchemaInv, SchemaTypes, BornInv, UnknownInv, UnknownSchema, DatabaseInv, OpenerInv
  <1>. QED
    BY <1>2, <1>3, <1>4, <1>5, <1>6 DEF SchemaInv

\* A process dies and starts again.
LEMMA SchemaCrash ==
  ASSUME SchemaInv, NEW x \in Openers, Schema!Crash(x) PROVE SchemaInv'
  <1>1. /\ born' = born /\ backend' = backend /\ has' = has /\ stamp' = stamp
        /\ filled' = filled /\ lost' = lost /\ (Schema!Sound' <=> Schema!Sound)
    BY DEF Schema!Crash, Schema!Goto, Schema!Database, Schema!Sound
  <1>2. SchemaTypes'
    BY <1>1 DEF Schema!Crash, Schema!Goto, Schema!Database, SchemaInv, SchemaTypes, OpenSteps
  <1>3. BornInv'
    BY <1>1 DEF SchemaInv, BornInv
  <1>4. UnknownInv'
    BY <1>1 DEF Schema!Crash, Schema!Goto, Schema!Database, SchemaInv, SchemaTypes, BornInv, UnknownInv, UnknownSchema, OpenerInv
  <1>5. DatabaseInv'
    BY <1>1 DEF Schema!Crash, Schema!Goto, Schema!Database, SchemaInv, SchemaTypes, DatabaseInv, OpenerInv
  <1>6. ASSUME NEW y \in Openers PROVE OpenerInv(y)'
    BY <1>1, Whole DEF Schema!Crash, Schema!Goto, Schema!Database, SchemaInv, SchemaTypes, BornInv, UnknownInv, UnknownSchema, DatabaseInv, OpenerInv
  <1>. QED
    BY <1>2, <1>3, <1>4, <1>5, <1>6 DEF SchemaInv

\* An opened store is written to.
LEMMA SchemaWrite ==
  ASSUME SchemaInv, NEW x \in Openers, Schema!Write(x) PROVE SchemaInv'
  <1>1. /\ born' = born /\ backend' = backend /\ has' = has /\ stamp' = stamp
        /\ filled' = filled /\ lost' = lost /\ (Schema!Sound' <=> Schema!Sound)
    BY DEF Schema!Write, Schema!Goto, Schema!Database, Schema!Sound
  <1>2. SchemaTypes'
    BY <1>1 DEF Schema!Write, Schema!Goto, Schema!Database, SchemaInv, SchemaTypes, OpenSteps
  <1>3. BornInv'
    BY <1>1 DEF SchemaInv, BornInv
  <1>4. UnknownInv'
    BY <1>1 DEF Schema!Write, Schema!Goto, Schema!Database, SchemaInv, SchemaTypes, BornInv, UnknownInv, UnknownSchema, OpenerInv
  <1>5. DatabaseInv'
    BY <1>1 DEF Schema!Write, Schema!Goto, Schema!Database, SchemaInv, SchemaTypes, DatabaseInv, OpenerInv
  <1>6. ASSUME NEW y \in Openers PROVE OpenerInv(y)'
    BY <1>1, Whole DEF Schema!Write, Schema!Goto, Schema!Database, SchemaInv, SchemaTypes, BornInv, UnknownInv, UnknownSchema, DatabaseInv, OpenerInv
  <1>. QED
    BY <1>2, <1>3, <1>4, <1>5, <1>6 DEF SchemaInv

\* The whole schema in one transaction, where there was none.
LEMMA SchemaCreates ==
  ASSUME SchemaInv, NEW x \in Openers, Schema!Creates(x), has = {}, openPc[x] \in {"idle", "create"},
         born' = born, backend' = backend, at' = at, fresh' = fresh, faulted' = faulted
  PROVE  SchemaInv'
  <1>1. /\ stamp' = 15 /\ has' = Schema!ObjectsOf(15) /\ filled' = 1..14 /\ lost' = lost
        /\ openPc' = [openPc EXCEPT ![x] = "opened"] /\ (Schema!Sound' <=> Schema!Sound)
    BY DEF Schema!Creates, Schema!SchemaVersion, Schema!Goto, Schema!Sound
  <1>2. ~UnknownSchema /\ stamp <= 15
    BY DEF SchemaInv, UnknownInv, UnknownSchema, BornInv
  <1>3. SchemaTypes'
    BY <1>1 DEF SchemaInv, SchemaTypes, OpenSteps
  <1>4. BornInv'
    BY <1>1 DEF SchemaInv, BornInv
  <1>5. UnknownInv'
    BY <1>1, <1>2 DEF UnknownInv, UnknownSchema
  <1>6. DatabaseInv'
    BY <1>1, <1>2, Objects, WholeObjects DEF SchemaInv, DatabaseInv, SchemaTypes, BornInv
  <1>7. ASSUME NEW y \in Openers PROVE OpenerInv(y)'
    <2>1. /\ at[y] \in 0..16 /\ openPc[y] \in OpenSteps
      BY DEF SchemaInv, SchemaTypes
    <2>2. \A u \in 0..15 : Schema!schemaTablesV(u) \subseteq Schema!ObjectsOf(15)
      BY TablesGrow
    <2>. QED
      BY <1>1, <1>2, <2>1, <2>2 DEF SchemaInv, SchemaTypes, BornInv, OpenerInv
  <1>. QED
    BY <1>3, <1>4, <1>5, <1>6, <1>7 DEF SchemaInv

\* Whoever loses the race to create verifies what the winner left.
LEMMA SchemaCreateSchema ==
  ASSUME SchemaInv, NEW x \in Openers, Schema!createSchema(x) PROVE SchemaInv'
  <1>1. CASE has = {} /\ Schema!Creates(x)
    BY <1>1, SchemaCreates DEF Schema!createSchema
  <1>2. CASE has # {} /\ Schema!Goto(x, "verify") /\ UNCHANGED Schema!Database
    <2>1. /\ born' = born /\ backend' = backend /\ has' = has /\ stamp' = stamp /\ at' = at
          /\ filled' = filled /\ lost' = lost /\ fresh' = fresh /\ faulted' = faulted
          /\ openPc[x] = "create" /\ has # {}
          /\ openPc' = [openPc EXCEPT ![x] = "verify"] /\ (Schema!Sound' <=> Schema!Sound)
      BY <1>2 DEF Schema!createSchema, Schema!Goto, Schema!Database, Schema!Sound
    <2>2. SchemaTypes'
      BY <2>1 DEF SchemaInv, SchemaTypes, OpenSteps
    <2>3. BornInv' /\ DatabaseInv'
      BY <2>1 DEF SchemaInv, BornInv, DatabaseInv
    <2>4. UnknownInv'
      BY <2>1 DEF SchemaInv, SchemaTypes, UnknownInv, UnknownSchema
    <2>5. ASSUME NEW y \in Openers PROVE OpenerInv(y)'
      BY <2>1, Whole DEF SchemaInv, SchemaTypes, DatabaseInv, OpenerInv
    <2>. QED
      BY <2>2, <2>3, <2>4, <2>5 DEF SchemaInv
  <1>. QED
    BY <1>1, <1>2 DEF Schema!createSchema

\* One step of the chain in its own transaction: only the version it leaves takes it.
LEMMA SchemaCommits ==
  ASSUME SchemaInv, NEW x \in Openers, openPc[x] = "chain", Schema!Commits(x),
         born' = born, backend' = backend, fresh' = fresh, faulted' = faulted
  PROVE  SchemaInv'
  <1> DEFINE v == at[x]
  <1>1. v \in 1..14 /\ born.stamp <= v /\ v <= stamp /\ stamp \in 0..15 /\ ~UnknownSchema
        /\ Schema!schemaTablesV(v) \subseteq has /\ born.stamp \in 0..16
    BY DEF SchemaInv, SchemaTypes, BornInv, UnknownInv, OpenerInv
  <1>2. Added[v] \notin has
    BY <1>1, StepAdds DEF Schema!Commits, Schema!Applies
  <1>3. stamp = v
    BY <1>1, <1>2 DEF SchemaInv, DatabaseInv
  <1>4. fresh = FALSE /\ \A y \in Openers : openPc[y] # "opened"
    BY <1>1, <1>3 DEF SchemaInv, SchemaTypes, DatabaseInv, OpenerInv
  <1>5. /\ has' = has \cup {Added[v]} /\ stamp' = v + 1
        /\ at' = [at EXCEPT ![x] = v + 1]
        /\ openPc' = [openPc EXCEPT ![x] = IF v + 1 = 15 THEN "opened" ELSE "chain"]
        /\ (Schema!Sound' <=> Schema!Sound)
    BY <1>1, <1>3, StepAdds DEF Schema!Commits, Schema!StampAfter, Schema!Stamped, Schema!Goto,
       Schema!SchemaVersion, Schema!Sound
  <1>6. filled' = filled \cup {v} /\ lost' = {}
    BY <1>4 DEF Schema!Commits, Schema!Backfill, SchemaInv, DatabaseInv
  <1>7. SchemaTypes'
    BY <1>1, <1>5 DEF SchemaInv, SchemaTypes, OpenSteps
  <1>8. BornInv'
    BY <1>5 DEF SchemaInv, BornInv
  <1>9. UnknownInv'
    BY <1>1, <1>5 DEF UnknownInv, UnknownSchema
  <1>10. DatabaseInv'
    <2>1. Schema!Sound => has' = Schema!WholeAt(stamp')
      BY <1>1, <1>3, <1>5, Objects, WholeObjects DEF SchemaInv, DatabaseInv
    <2>2. \A u \in 1..14 : born.stamp <= u /\ u < stamp' => Added[u] \in has'
      BY <1>1, <1>3, <1>5 DEF SchemaInv, DatabaseInv
    <2>3. \A u \in 1..14 : u < stamp' => u \in filled'
      BY <1>1, <1>3, <1>5, <1>6 DEF SchemaInv, DatabaseInv
    <2>. QED
      BY <1>1, <1>4, <1>5, <1>6, <2>1, <2>2, <2>3 DEF DatabaseInv
  <1>11. ASSUME NEW y \in Openers PROVE OpenerInv(y)'
    <2>1. Schema!schemaTablesV(v + 1) \subseteq has'
      BY <1>1, <1>5, TablesGrow
    <2>. QED
      BY <1>1, <1>3, <1>4, <1>5, <2>1 DEF SchemaInv, SchemaTypes, OpenerInv
  <1>. QED
    BY <1>7, <1>8, <1>9, <1>10, <1>11 DEF SchemaInv

\* A step, taken or found taken.
LEMMA SchemaMigrateOnce ==
  ASSUME SchemaInv, NEW x \in Openers, Schema!migrateOnce(x) PROVE SchemaInv'
  <1>1. CASE Schema!Commits(x)
    BY <1>1, SchemaCommits DEF Schema!migrateOnce
  <1>2. CASE Schema!Duplicate(x)
    <2>1. /\ born' = born /\ backend' = backend /\ has' = has /\ stamp' = stamp /\ at' = at
          /\ filled' = filled /\ lost' = lost /\ fresh' = fresh /\ faulted' = faulted
          /\ openPc[x] = "chain" /\ openPc' = [openPc EXCEPT ![x] = "recover"]
          /\ (Schema!Sound' <=> Schema!Sound)
      BY <1>2 DEF Schema!migrateOnce, Schema!Duplicate, Schema!Goto, Schema!Database, Schema!Sound
    <2>2. /\ at[x] \in 1..14 /\ stamp \in 0..15 /\ born.stamp <= at[x] /\ at[x] <= stamp
      BY <2>1 DEF SchemaInv, SchemaTypes, UnknownInv, OpenerInv
    <2>3. Added[at[x]] \in has
      BY <1>2, <2>2, StepAdds DEF Schema!Duplicate, Schema!Applies
    <2>4. Schema!Sound => at[x] < stamp
      BY <2>2, <2>3, Objects, WholeObjects DEF SchemaInv, DatabaseInv
    <2>5. SchemaTypes'
      BY <2>1 DEF SchemaInv, SchemaTypes, OpenSteps
    <2>6. BornInv' /\ DatabaseInv'
      BY <2>1 DEF SchemaInv, BornInv, DatabaseInv
    <2>7. UnknownInv'
      BY <2>1 DEF SchemaInv, SchemaTypes, UnknownInv, UnknownSchema
    <2>8. ASSUME NEW y \in Openers PROVE OpenerInv(y)'
      BY <2>1, <2>4 DEF SchemaInv, SchemaTypes, OpenerInv
    <2>. QED
      BY <2>5, <2>6, <2>7, <2>8 DEF SchemaInv
  <1>. QED
    BY <1>1, <1>2 DEF Schema!migrateOnce

\* PostgreSQL's one transaction takes a whole database to the current version.
LEMMA SchemaMigratesFrom ==
  ASSUME SchemaInv, NEW x \in Openers, backend = "postgres", openPc[x] = "idle",
         Schema!present # {}, Schema!MigratesFrom(x, Schema!StartsFrom),
         born' = born, backend' = backend, at' = at, fresh' = fresh, faulted' = faulted
  PROVE  SchemaInv'
  <1>1. Schema!Sound /\ has = Schema!WholeAt(stamp) /\ stamp \in 0..16 /\ stamp # 0
    BY Whole DEF SchemaInv, SchemaTypes, BornInv, DatabaseInv, Schema!present
  <1>2. Schema!StartsFrom > 0
    BY DEF Schema!MigratesFrom
  <1>3. stamp \in 1..15 /\ Schema!StartsFrom = stamp
    BY <1>1, <1>2, StartsRight
  <1>4. ~UnknownSchema
    BY <1>1, <1>3, Whole DEF SchemaInv, BornInv, UnknownInv, UnknownSchema, Schema!Sound
  <1> DEFINE steps == stamp..14
  <1>5. /\ has' = has \cup UNION {Schema!Step[u].adds : u \in steps}
        /\ stamp' = (IF steps = {} THEN stamp ELSE Schema!StampAfter(14))
        /\ Schema!Backfill(steps) /\ openPc' = [openPc EXCEPT ![x] = "opened"]
        /\ (Schema!Sound' <=> Schema!Sound)
    BY <1>3 DEF Schema!MigratesFrom, Schema!SchemaVersion, Schema!Goto, Schema!Sound
  <1>6. stamp' = 15
    BY <1>3, <1>5 DEF Schema!StampAfter, Schema!Stamped
  <1>7. has' = Schema!ObjectsOf(15)
    <2>1. has = Schema!ObjectsOf(stamp)
      BY <1>1, <1>3, WholeObjects
    <2>2. UNION {Schema!Step[u].adds : u \in steps} = {Added[u] : u \in steps}
      <3>1. \A u \in steps : Schema!Step[u].adds = {Added[u]}
        BY <1>3, StepAdds
      <3>. QED
        BY <3>1
    <2>3. 1..(stamp - 1) \cup steps = 1..14
      BY <1>3
    <2>4. Schema!ObjectsOf(stamp) = {"version", "core"} \cup {Added[u] : u \in 1..(stamp - 1)}
      BY <1>3, ObjectsOfVersion
    <2>5. Schema!ObjectsOf(15) = {"version", "core"} \cup {Added[u] : u \in 1..14}
      BY ObjectsOfVersion
    <2>6. {Added[u] : u \in 1..(stamp - 1)} \cup {Added[u] : u \in steps} = {Added[u] : u \in 1..14}
      BY <2>3
    <2>. QED
      BY <1>5, <2>1, <2>2, <2>4, <2>5, <2>6
  <1>8. filled' = filled \cup steps /\ lost' = {}
    <2>1. fresh => steps = {}
      BY <1>3 DEF SchemaInv, DatabaseInv
    <2>2. lost = {}
      BY DEF SchemaInv, DatabaseInv
    <2>. QED
      BY <1>5, <2>1, <2>2 DEF Schema!Backfill
  <1>9. SchemaTypes'
    BY <1>5, <1>6 DEF SchemaInv, SchemaTypes, OpenSteps
  <1>10. BornInv'
    BY <1>5 DEF SchemaInv, BornInv
  <1>11. UnknownInv'
    BY <1>4, <1>6 DEF UnknownInv, UnknownSchema
  <1>12. DatabaseInv'
    <2>1. born.stamp \in 0..15
      BY <1>1, <1>3 DEF SchemaInv, BornInv, DatabaseInv
    <2>2. \A u \in 1..14 : Added[u] \in has'
      BY <1>7, Objects
    <2>3. has' = Schema!WholeAt(15)
      BY <1>7, WholeObjects
    <2>4. \A u \in 1..14 : u \in filled'
      BY <1>3, <1>8 DEF SchemaInv, DatabaseInv
    <2>. QED
      BY <1>6, <1>8, <2>1, <2>2, <2>3, <2>4 DEF DatabaseInv
  <1>13. ASSUME NEW y \in Openers PROVE OpenerInv(y)'
    <2>1. Schema!schemaTablesV(15) \subseteq has'
      BY <1>7, TablesGrow
    <2>. QED
      BY <1>5, <1>6, <2>1 DEF SchemaInv, SchemaTypes, OpenerInv
  <1>. QED
    BY <1>9, <1>10, <1>11, <1>12, <1>13 DEF SchemaInv

\* It refuses only a newer one.
LEMMA SchemaRefuses ==
  ASSUME SchemaInv, NEW x \in Openers, backend = "postgres", openPc[x] = "idle",
         Schema!present # {}, Schema!Refuses(x, Schema!StartsFrom),
         born' = born, backend' = backend, at' = at, fresh' = fresh, faulted' = faulted
  PROVE  SchemaInv'
  <1>1. Schema!Sound /\ has = Schema!WholeAt(stamp) /\ stamp \in 1..16
    BY Whole DEF SchemaInv, SchemaTypes, BornInv, DatabaseInv, Schema!present
  <1>2. /\ has' = has /\ stamp' = stamp /\ filled' = filled /\ lost' = lost
        /\ openPc' = [openPc EXCEPT ![x] = "refused"] /\ (Schema!Sound' <=> Schema!Sound)
    BY DEF Schema!Refuses, Schema!Goto, Schema!Database, Schema!Sound
  <1>3. stamp = 16
    <2>1. SUFFICES ASSUME stamp \in 1..15 PROVE FALSE
      BY <1>1
    <2>2. Schema!StartsFrom = stamp
      BY <1>1, <2>1, StartsRight
    <2>3. PICK u \in stamp..14 : ~Schema!Applies(u)
      BY <2>1, <2>2 DEF Schema!Refuses, Schema!SchemaVersion
    <2>4. Added[u] \in Schema!ObjectsOf(stamp)
      BY <1>1, <2>1, <2>3, StepAdds, WholeObjects DEF Schema!Applies
    <2>. QED
      BY <2>1, <2>4, Objects
  <1>4. born.stamp = 16
    BY <1>3 DEF SchemaInv, UnknownInv, UnknownSchema
  <1>5. SchemaTypes'
    BY <1>2 DEF SchemaInv, SchemaTypes, OpenSteps
  <1>6. BornInv' /\ DatabaseInv'
    BY <1>2 DEF SchemaInv, BornInv, DatabaseInv
  <1>7. UnknownInv'
    BY <1>2 DEF SchemaInv, SchemaTypes, UnknownInv, UnknownSchema
  <1>8. ASSUME NEW y \in Openers PROVE OpenerInv(y)'
    BY <1>2, <1>4 DEF SchemaInv, SchemaTypes, OpenerInv
  <1>. QED
    BY <1>5, <1>6, <1>7, <1>8 DEF SchemaInv

\* PostgreSQL's migration as a whole.
LEMMA SchemaMigratePostgres ==
  ASSUME SchemaInv, NEW x \in Openers, Schema!migratePostgres(x) PROVE SchemaInv'
  <1>1. /\ backend = "postgres" /\ openPc[x] = "idle"
        /\ born' = born /\ backend' = backend /\ at' = at /\ fresh' = fresh /\ faulted' = faulted
    BY DEF Schema!migratePostgres
  <1>2. CASE Schema!present = {} /\ Schema!Creates(x)
    <2>1. has = {}
      <3>1. Schema!Sound /\ has = Schema!WholeAt(stamp) /\ stamp \in 0..16 /\ "core" \notin has
        BY <1>1, <1>2 DEF SchemaInv, SchemaTypes, BornInv, DatabaseInv, Schema!present,
           Schema!Tables, Schema!V1
      <3>. QED
        BY <3>1, Whole
    <2>. QED
      BY <1>1, <1>2, <2>1, SchemaCreates
  <1>3. CASE Schema!present # {} /\ Schema!MigratesFrom(x, Schema!StartsFrom)
    BY <1>1, <1>3, SchemaMigratesFrom
  <1>4. CASE Schema!present # {} /\ Schema!Refuses(x, Schema!StartsFrom)
    BY <1>1, <1>4, SchemaRefuses
  <1>. QED
    BY <1>2, <1>3, <1>4 DEF Schema!migratePostgres

\* Every step keeps the invariant.
LEMMA SchemaStep == ASSUME SchemaInv, [Schema!Next]_schemaVars PROVE SchemaInv'
  <1>1. CASE UNCHANGED schemaVars
    <2>1. Schema!Sound' <=> Schema!Sound
      BY <1>1 DEF schemaVars, Schema!Sound
    <2>2. SchemaTypes' /\ BornInv' /\ UnknownInv' /\ DatabaseInv'
      BY <1>1, <2>1 DEF schemaVars, SchemaInv, SchemaTypes, BornInv, UnknownInv, UnknownSchema, DatabaseInv
    <2>3. ASSUME NEW y \in Openers PROVE OpenerInv(y)'
      BY <1>1, <2>1 DEF schemaVars, SchemaInv, OpenerInv
    <2>. QED
      BY <2>2, <2>3 DEF SchemaInv
  <1>2. ASSUME NEW x \in Openers,
               \/ Schema!tablesPresent(x) \/ Schema!createSchema(x) \/ Schema!storedSchemaVersion(x)
               \/ Schema!requireTables(x) \/ Schema!migrateOnce(x) \/ Schema!Busy(x)
               \/ Schema!Recover(x) \/ Schema!migratePostgres(x) \/ Schema!PostgresFails(x)
               \/ Schema!Crash(x) \/ Schema!Write(x)
        PROVE  SchemaInv'
    BY <1>2, SchemaTablesPresent, SchemaCreateSchema, SchemaStoredSchemaVersion,
       SchemaRequireTables, SchemaMigrateOnce, SchemaBusy, SchemaRecover,
       SchemaMigratePostgres, SchemaPostgresFails, SchemaCrash, SchemaWrite
  <1>. QED
    BY <1>1, <1>2 DEF Schema!Next

(* However many processes open a database at once, and whatever fails on the *)
(* way: what opens has its tables, a stamp is earned, unknown schemas are    *)
(* left alone, nobody is turned away without a fault, and no backfill runs   *)
(* over newer rows (sqlite.go, postgres_schema.go).                          *)
THEOREM MigrationSafe == EvidenceSpec => []MigrationIsSafe
  <1> DEFINE PartInv == part = "schema" => SchemaInv
  <1>1. EvidenceInit => PartInv
    BY SchemaInit, PartsAssumption DEF EvidenceInit
  <1>2. PartInv /\ [EvidenceNext]_all => PartInv'
    <2> SUFFICES ASSUME PartInv, [EvidenceNext]_all, part = "schema" PROVE SchemaInv'
      BY PartStays
    <2>1. [Schema!Next]_schemaVars
      BY DEF EvidenceNext, all
    <2>. QED
      BY <2>1, SchemaStep
  <1>3. PartInv => MigrationIsSafe
    <2> SUFFICES ASSUME SchemaInv PROVE Schema!MigrationIsSafe
      BY DEF MigrationIsSafe
    <2>1. Schema!OpenedHasItsTables
      BY DEF SchemaInv, OpenerInv, Schema!OpenedHasItsTables, Schema!Opened, Schema!SchemaVersion
    <2>2. Schema!StampIsEarned
      BY DEF SchemaInv, DatabaseInv, OpenerInv, Schema!StampIsEarned, Schema!Opened, Schema!SchemaVersion
    <2>3. Schema!NoFalseRefusal
      BY DEF SchemaInv, OpenerInv, Schema!NoFalseRefusal, Schema!SchemaVersion
    <2>4. Schema!UnknownIsUntouched
      BY DEF SchemaInv, BornInv, UnknownInv, UnknownSchema, Schema!UnknownIsUntouched, Schema!Opened,
         Schema!SchemaVersion
    <2>. QED
      BY <2>1, <2>2, <2>3, <2>4 DEF Schema!MigrationIsSafe, SchemaInv, DatabaseInv
  <1>. QED
    BY <1>1, <1>2, <1>3, PTL DEF EvidenceSpec

-----------------------------------------------------------------------------
(* The scenario runner, for any number of scenarios and repetitions, any      *)
(* sizes of documents, and requests that arrive whenever they do.             *)

Deciding == {"begin", "repeat", "running", "complete", "report", "failing", "settling"}
RequestCauses == {"none", "operational", "usage", "scenario_timeout", "cancelled",
                  "repetition_failed", "run_not_completed"}
KnownCompleted == {"completed_without_response", "unrecognized_verdict", "contradicted"}
MemberCodes == RequestCauses \cup KnownCompleted
                   \cup {"execution_state_unknown", "verdict", "fail_fast"}

SuiteTypes ==
    /\ options \in [mode : {"single", "suite"}, failFast : BOOLEAN, reuse : BOOLEAN, valid : BOOLEAN]
    /\ runnerPc \in Deciding \cup {"preflight", "schedule", "done"}
    /\ member \in 0..SuiteMembers
    /\ requests \subseteq [op : {"begin", "complete", "fail"}, m : 1..SuiteMembers]
    /\ execution \in [1..SuiteMembers -> {"none", "running", "completed", "failed"}]
    /\ verdict \in [1..SuiteMembers -> {"none", "pass", "fail", "other"}]
    /\ outcome \in Seq([kind : {"pass", "fail", "error", "skipped"}, code : MemberCodes])
    /\ exitCode \in 0..3
    /\ cause \in RequestCauses
    /\ ctx \in {"live", "scenario_timeout", "cancelled"}

\* The runner's loop over the scenarios.
PlaceInv ==
    /\ runnerPc \in Deciding => member = Len(outcome) + 1
    /\ runnerPc \notin Deciding => member = Len(outcome)
    /\ member <= Suite!Files
    /\ ~options.valid => runnerPc \in {"preflight", "done"} /\ member = 0
    /\ runnerPc = "preflight" => member = 0

\* A request of a scenario that has not reached the control plane.
Travels(op, m) == [op |-> op, m |-> m] \in requests

\* Nothing is on its way for a scenario that has not been reached, and no
\* completion for one that is completed.
NetInv ==
    /\ \A r \in requests : r.m <= member
    /\ \A m \in 1..SuiteMembers : m > member => execution[m] = "none"
    /\ \A m \in 1..SuiteMembers : Travels("complete", m) => execution[m] # "completed"

\* A scenario is completed, or not and never will be, whatever still travels.
IsFinal(m) == execution[m] = "completed" /\ ~Travels("begin", m)
IsClosed(m) ==
    /\ execution[m] # "completed"
    /\ ~Travels("complete", m) \/ (execution[m] = "failed" /\ ~Travels("begin", m))

\* What the answers so far say of the scenario the runner is at.
CurrentInv ==
    /\ runnerPc \notin {"begin", "complete", "failing", "settling"} => waiting = "none"
    /\ runnerPc = "begin" => waiting \in {"none", "begin"}
    /\ runnerPc = "complete" => waiting \in {"none", "complete"}
    /\ runnerPc \in {"failing", "settling"} => waiting = "fail"
    /\ runnerPc \in {"begin", "repeat", "running", "failing"}
         \/ (runnerPc = "complete" /\ (waiting = "none" \/ answer = "refused")) =>
           ~Travels("complete", member) /\ execution[member] # "completed"
    /\ runnerPc \in {"repeat", "running", "complete", "settling"}
         \/ (runnerPc = "begin" /\ waiting = "begin" /\ answer = "ok") =>
           ~Travels("begin", member)
    /\ runnerPc = "complete" /\ waiting = "complete" /\ answer = "ok" =>
           IsFinal(member) /\ verdict[member] \in {"pass", "fail", "other"}
    /\ runnerPc = "report" => IsFinal(member) /\ verdict[member] \in {"pass", "fail"}
    /\ runnerPc = "settling" /\ answer = "ok" => execution[member] = "failed"

\* A scenario was reported as it ended.
MemberInv(m) ==
    /\ outcome[m].kind \in {"pass", "fail"} => IsFinal(m) /\ verdict[m] = outcome[m].kind
    /\ outcome[m].code \in KnownCompleted => IsFinal(m)
    /\ outcome[m].kind = "error" /\ outcome[m].code \notin KnownCompleted \cup {"execution_state_unknown"}
           => IsClosed(m)
    /\ outcome[m].kind = "skipped" => execution[m] = "none" /\ \A r \in requests : r.m # m

\* The exit code so far covers the scenarios so far.
ExitInv ==
    /\ options.mode = "single" => ~aborted /\ ~options.failFast
    /\ stopped = "fail_fast" => exitCode # 0
    /\ \A m \in 1..Len(outcome) :
          /\ outcome[m].kind = "fail" => exitCode >= 1
          /\ outcome[m].kind = "error" => exitCode >= 2
    /\ exitCode = 1 => \E m \in 1..Len(outcome) : outcome[m].kind = "fail"
    /\ runnerPc = "done" /\ options.valid =>
          /\ Len(outcome) = Suite!Files
          /\ exitCode \in {0, 1} => complete
          /\ \A m \in 1..Len(outcome) : outcome[m].kind = "skipped" => exitCode # 0

\* A suite that skips has a reason to.
StopInv ==
    /\ stopped \in {"", "cancelled", "fail_fast"}
    /\ stopped = "cancelled" => aborted
    /\ \A m \in 1..Len(outcome) : outcome[m].kind = "skipped" => stopped # ""

SuiteInv ==
    /\ SuiteTypes /\ PlaceInv /\ NetInv /\ CurrentInv /\ ExitInv /\ StopInv
    /\ \A m \in 1..Len(outcome) : MemberInv(m)

\* A longer sequence.
LEMMA Appended ==
  ASSUME NEW S, NEW s \in Seq(S), NEW e \in S
  PROVE  /\ Append(s, e) \in Seq(S) /\ Len(Append(s, e)) = Len(s) + 1 /\ Len(s) \in Nat
         /\ \A m \in 1..Len(s) : Append(s, e)[m] = s[m]
         /\ Append(s, e)[Len(s) + 1] = e
  OBVIOUS

\* The empty one.
LEMMA BlankSeq == ASSUME NEW S, NEW s, s = <<>> PROVE s \in Seq(S) /\ Len(s) = 0
  OBVIOUS

\* An element of one.
LEMMA SeqElement == ASSUME NEW S, NEW s \in Seq(S), NEW m \in 1..Len(s) PROVE s[m] \in S
  OBVIOUS

\* Its length.
LEMMA LenNat == ASSUME NEW S, NEW s \in Seq(S) PROVE Len(s) \in Nat
  OBVIOUS

\* A request is its operation and its scenario.
LEMMA RequestIs ==
  ASSUME SuiteTypes, NEW r \in requests
  PROVE  /\ r.op \in {"begin", "complete", "fail"} /\ r.m \in 1..SuiteMembers
         /\ r = [op |-> r.op, m |-> r.m]
  <1>1. r \in [op : {"begin", "complete", "fail"}, m : 1..SuiteMembers]
    BY DEF SuiteTypes
  <1>. QED
    BY <1>1

\* The scenarios of a suite are numbered, those of a single run are one.
LEMMA SuiteFiles == Suite!Files \in 1..SuiteMembers /\ SuiteMembers \in Nat \ {0}
  BY PartsAssumption DEF Suite!RunnerAssumption, Suite!Files

\* The scenarios reported are scenarios.
LEMMA ReportedMembers ==
  ASSUME SuiteInv
  PROVE  /\ Len(outcome) \in Nat /\ Len(outcome) <= member /\ member \in 0..SuiteMembers
         /\ \A m \in 1..Len(outcome) : m \in 1..SuiteMembers /\ m <= member
         /\ runnerPc \in Deciding => member \in 1..SuiteMembers /\ member = Len(outcome) + 1
  <1>1. member \in 0..SuiteMembers /\ Len(outcome) \in Nat /\ SuiteMembers \in Nat
    BY LenNat, SuiteFiles DEF SuiteInv, SuiteTypes
  <1>2. /\ runnerPc \in Deciding => member = Len(outcome) + 1
        /\ runnerPc \notin Deciding => member = Len(outcome)
    BY DEF SuiteInv, PlaceInv
  <1>3. Len(outcome) <= member
    BY <1>1, <1>2
  <1>. QED
    BY <1>1, <1>2, <1>3

\* The states the runner starts in.
LEMMA SuiteInit == ASSUME Suite!Init PROVE SuiteInv
  <1>1. SuiteMembers \in Nat \ {0} /\ Suite!Files \in 1..SuiteMembers
    BY SuiteFiles
  <1>0. outcome = <<>>
    BY DEF Suite!Init
  <1>2. Len(outcome) = 0 /\ requests = {} /\ exitCode = 0 /\ member = 0
        /\ runnerPc = "preflight" /\ cause = "none" /\ ctx = "live"
    BY <1>0, BlankSeq DEF Suite!Init
  <1>3. SuiteTypes
    <2>1. options \in [mode : {"single", "suite"}, failFast : BOOLEAN, reuse : BOOLEAN, valid : BOOLEAN]
      BY DEF Suite!Init
    <2>2. /\ execution \in [1..SuiteMembers -> {"none", "running", "completed", "failed"}]
          /\ verdict \in [1..SuiteMembers -> {"none", "pass", "fail", "other"}]
      BY DEF Suite!Init
    <2>3. outcome \in Seq([kind : {"pass", "fail", "error", "skipped"}, code : MemberCodes])
      BY <1>0, BlankSeq
    <2>4. /\ runnerPc \in Deciding \cup {"preflight", "schedule", "done"} /\ member \in 0..SuiteMembers
          /\ exitCode \in 0..3 /\ cause \in RequestCauses
      BY <1>1, <1>2 DEF RequestCauses
    <2>. QED
      BY <1>2, <2>1, <2>2, <2>3, <2>4 DEF SuiteTypes
  <1>4. PlaceInv
    <2>1. runnerPc \notin Deciding /\ member = Len(outcome) /\ member <= Suite!Files
      BY <1>1, <1>2 DEF Deciding
    <2>. QED
      BY <1>2, <2>1 DEF PlaceInv
  <1>5. NetInv
    BY <1>1, <1>2 DEF Suite!Init, NetInv, Travels
  <1>6. CurrentInv
    BY DEF Suite!Init, CurrentInv
  <1>7. ExitInv
    <2>1. options.mode = "single" => ~aborted /\ ~options.failFast
      BY DEF Suite!Init
    <2>2. 1..Len(outcome) = {} /\ exitCode # 1 /\ runnerPc # "done"
      BY <1>2
    <2>3. stopped # "fail_fast"
      BY DEF Suite!Init
    <2>. QED
      BY <1>2, <2>1, <2>2, <2>3 DEF ExitInv
  <1>8. 1..Len(outcome) = {}
    BY <1>2
  <1>9. StopInv
    BY <1>8 DEF Suite!Init, StopInv
  <1>. QED
    BY <1>3, <1>4, <1>5, <1>6, <1>7, <1>8, <1>9 DEF SuiteInv

(* The control plane's answer to a request that has arrived, of the scenario *)
(* the runner is at or of one it has given up.                                *)
LEMMA SuiteHandled ==
  ASSUME SuiteInv, NEW r \in requests, NEW answered \in {"ok", "garbled", "refused", "unnamed"},
         Suite!Arrived(r, answered),
         options' = options, runnerPc' = runnerPc, member' = member, cause' = cause,
         waiting' = waiting, ctx' = ctx, aborted' = aborted, outcome' = outcome,
         stopped' = stopped, exitCode' = exitCode, complete' = complete,
         execution' \in [1..SuiteMembers -> {"none", "running", "completed", "failed"}],
         verdict' \in [1..SuiteMembers -> {"none", "pass", "fail", "other"}],
         \A m \in 1..SuiteMembers : m # r.m => execution'[m] = execution[m] /\ verdict'[m] = verdict[m],
         execution'[r.m] # execution[r.m] =>
             \/ r.op = "begin" /\ execution'[r.m] = "running"
             \/ r.op = "complete" /\ execution[r.m] = "running" /\ execution'[r.m] = "completed"
             \/ r.op = "fail" /\ execution[r.m] = "running" /\ execution'[r.m] = "failed",
         execution[r.m] = "completed" /\ r.op # "begin" => verdict'[r.m] = verdict[r.m],
         r.op = "complete" /\ answered = "refused" => execution'[r.m] = execution[r.m],
         r.op = "complete" /\ answered = "ok" =>
             execution'[r.m] = "completed" /\ verdict'[r.m] \in {"pass", "fail", "other"},
         r.op = "fail" /\ answered = "ok" => execution'[r.m] = "failed"
  PROVE  SuiteInv'
  <1>1. /\ r.op \in {"begin", "complete", "fail"} /\ r.m \in 1..SuiteMembers
        /\ r = [op |-> r.op, m |-> r.m]
    BY RequestIs DEF SuiteInv
  <1>2. /\ requests' = requests \ {r}
        /\ answer' = IF waiting = r.op /\ member = r.m /\ answer = "none" THEN answered ELSE answer
    BY DEF Suite!Arrived
  <1>3. \A op, m : Travels(op, m)' => Travels(op, m)
    BY <1>2 DEF Travels
  <1>4. ~Travels(r.op, r.m)' /\ Travels(r.op, r.m)
    BY <1>1, <1>2 DEF Travels
  <1>5. member \in 0..SuiteMembers /\ r.m <= member
    BY DEF SuiteInv, SuiteTypes, NetInv
  <1>6. SuiteTypes'
    BY <1>2 DEF SuiteInv, SuiteTypes
  <1>7. PlaceInv'
    BY DEF SuiteInv, PlaceInv, Suite!Files
  <1>8. \A m \in 1..SuiteMembers : IsFinal(m) => IsFinal(m)' /\ verdict'[m] = verdict[m]
    BY <1>1, <1>3, <1>4 DEF IsFinal
  <1>9. \A m \in 1..SuiteMembers : IsClosed(m) => IsClosed(m)'
    BY <1>1, <1>3, <1>4 DEF IsClosed
  <1>10. NetInv'
    BY <1>1, <1>2, <1>3, <1>4, <1>5 DEF SuiteInv, NetInv
  <1>11. CurrentInv'
    <2>1. \A m \in 1..SuiteMembers : ~Travels("complete", m) /\ execution[m] # "completed"
             => ~Travels("complete", m)' /\ execution'[m] # "completed"
      BY <1>1, <1>3, <1>4
    <2>2. runnerPc \in Deciding => member \in 1..SuiteMembers
      BY <1>1, <1>5
    <2>3. Travels("complete", r.m) => execution[r.m] # "completed"
      BY <1>1 DEF SuiteInv, NetInv
    <2>4. answer' # answer => answer' = answered /\ waiting = r.op /\ member = r.m
      BY <1>2
    <2>5. \A m \in 1..SuiteMembers : execution[m] = "failed" /\ ~Travels("begin", m) => execution'[m] = "failed"
      BY <1>1, <1>3, <1>4
    <2>6. /\ (runnerPc \notin {"begin", "complete", "failing", "settling"} => waiting = "none")
          /\ (runnerPc = "begin" => waiting \in {"none", "begin"})
          /\ (runnerPc = "complete" => waiting \in {"none", "complete"})
          /\ (runnerPc \in {"failing", "settling"} => waiting = "fail")
      BY DEF SuiteInv, CurrentInv
    <2>7. ASSUME \/ runnerPc \in {"begin", "repeat", "running", "failing"}
                 \/ (runnerPc = "complete" /\ (waiting = "none" \/ answer' = "refused"))
          PROVE  ~Travels("complete", member)' /\ execution'[member] # "completed"
      <3>1. CASE answer' = answer \/ runnerPc # "complete" \/ waiting = "none"
        BY <2>1, <2>2, <2>7, <3>1 DEF SuiteInv, CurrentInv, Deciding
      <3>2. CASE answer' # answer /\ runnerPc = "complete" /\ waiting # "none"
        <4>1. r.op = "complete" /\ member = r.m /\ answered = "refused"
          BY <2>4, <2>6, <2>7, <3>2
        <4>. QED
          BY <1>4, <2>3, <4>1
      <3>. QED
        BY <3>1, <3>2
    <2>8. ASSUME \/ runnerPc \in {"repeat", "running", "complete", "settling"}
                 \/ (runnerPc = "begin" /\ waiting = "begin" /\ answer' = "ok")
          PROVE  ~Travels("begin", member)'
      <3>1. CASE answer' = answer \/ runnerPc # "begin"
        BY <1>3, <2>8, <3>1 DEF SuiteInv, CurrentInv
      <3>2. CASE answer' # answer /\ runnerPc = "begin"
        BY <1>4, <2>4, <2>8, <3>2
      <3>. QED
        BY <3>1, <3>2
    <2>9. ASSUME runnerPc = "complete", waiting = "complete", answer' = "ok"
          PROVE  IsFinal(member)' /\ verdict'[member] \in {"pass", "fail", "other"}
      <3>1. CASE answer' = answer
        BY <1>8, <2>2, <2>9, <3>1 DEF SuiteInv, CurrentInv, Deciding
      <3>2. CASE answer' # answer
        BY <2>4, <2>8, <2>9, <3>2 DEF IsFinal
      <3>. QED
        BY <3>1, <3>2
    <2>10. runnerPc = "report" => IsFinal(member)' /\ verdict'[member] \in {"pass", "fail"}
      BY <1>8, <2>2 DEF SuiteInv, CurrentInv, Deciding
    <2>11. ASSUME runnerPc = "settling", answer' = "ok" PROVE execution'[member] = "failed"
      <3>1. CASE answer' = answer
        BY <2>2, <2>5, <2>11, <3>1 DEF SuiteInv, CurrentInv, Deciding
      <3>2. CASE answer' # answer
        BY <2>4, <2>6, <2>11, <3>2
      <3>. QED
        BY <3>1, <3>2
    <2>. QED
      BY <2>6, <2>7, <2>8, <2>9, <2>10, <2>11 DEF CurrentInv
  <1>12. ExitInv'
    BY DEF SuiteInv, ExitInv, Suite!Files
  <1>13. ASSUME NEW m \in 1..Len(outcome)' PROVE MemberInv(m)'
    <2>1. m \in 1..Len(outcome) /\ m \in 1..SuiteMembers /\ MemberInv(m)
      BY ReportedMembers DEF SuiteInv
    <2>2. outcome[m].kind = "skipped" => execution'[m] = "none" /\ \A q \in requests' : q.m # m
      BY <1>2, <2>1 DEF MemberInv
    <2>. QED
      BY <1>8, <1>9, <2>1, <2>2 DEF MemberInv
  <1>14. StopInv'
    BY DEF SuiteInv, StopInv
  <1>. QED
    BY <1>6, <1>7, <1>10, <1>11, <1>12, <1>13, <1>14 DEF SuiteInv

\* The control plane handles a request.
LEMMA SuiteHandle == ASSUME SuiteInv, Suite!Handle PROVE SuiteInv'
  <1>1. PICK r \in requests : Suite!HandleBegin(r) \/ Suite!HandleComplete(r) \/ Suite!HandleFail(r)
    BY DEF Suite!Handle
  <1>2. /\ options' = options /\ runnerPc' = runnerPc /\ member' = member /\ cause' = cause
        /\ waiting' = waiting /\ ctx' = ctx /\ aborted' = aborted /\ outcome' = outcome
        /\ stopped' = stopped /\ exitCode' = exitCode /\ complete' = complete
    BY DEF Suite!Handle, Suite!loops, Suite!contexts, Suite!suite
  <1>3. /\ execution \in [1..SuiteMembers -> {"none", "running", "completed", "failed"}]
        /\ verdict \in [1..SuiteMembers -> {"none", "pass", "fail", "other"}]
        /\ r.m \in 1..SuiteMembers
    BY RequestIs DEF SuiteInv, SuiteTypes
  <1>4. CASE Suite!HandleBegin(r)
    <2>1. /\ r.op = "begin" /\ verdict' = verdict
          /\ execution' \in {execution, [execution EXCEPT ![r.m] = "running"]}
      BY <1>4 DEF Suite!HandleBegin
    <2>2. PICK answered \in {"ok", "garbled", "refused", "unnamed"} : Suite!Arrived(r, answered)
      BY <1>4 DEF Suite!HandleBegin
    <2>3. /\ execution' \in [1..SuiteMembers -> {"none", "running", "completed", "failed"}]
          /\ \A m \in 1..SuiteMembers : m # r.m => execution'[m] = execution[m]
          /\ execution'[r.m] # execution[r.m] => execution'[r.m] = "running"
      BY <1>3, <2>1
    <2>. QED
      BY <1>2, <1>3, <2>1, <2>2, <2>3, SuiteHandled
  <1>5. CASE Suite!HandleComplete(r)
    <2>1. CASE /\ execution[r.m] = "running"
               /\ execution' = [execution EXCEPT ![r.m] = "completed"]
      <3>1. PICK v \in {"pass", "fail", "other"} : verdict' = [verdict EXCEPT ![r.m] = v]
        BY <1>3, <1>5, <2>1 DEF Suite!HandleComplete, Suite!control
      <3>2. PICK answered \in {"ok", "garbled"} : Suite!Arrived(r, answered)
        BY <1>3, <1>5, <2>1 DEF Suite!HandleComplete, Suite!control
      <3>3. r.op = "complete"
        BY <1>5 DEF Suite!HandleComplete
      <3>. QED
        BY <1>2, <1>3, <2>1, <3>1, <3>2, <3>3, SuiteHandled
    <2>2. CASE Suite!Arrived(r, "refused") /\ UNCHANGED Suite!control
      <3>1. r.op = "complete" /\ execution' = execution /\ verdict' = verdict
        BY <1>5, <2>2 DEF Suite!HandleComplete, Suite!control
      <3>. QED
        BY <1>2, <1>3, <2>2, <3>1, SuiteHandled
    <2>. QED
      BY <1>5, <2>1, <2>2 DEF Suite!HandleComplete
  <1>6. CASE Suite!HandleFail(r)
    <2>1. r.op = "fail" /\ verdict' = verdict
      BY <1>6 DEF Suite!HandleFail
    <2>2. CASE execution[r.m] \in {"running", "failed"}
      <3>1. execution' = [execution EXCEPT ![r.m] = "failed"] /\ Suite!Arrived(r, "ok")
        BY <1>6, <2>2 DEF Suite!HandleFail
      <3>. QED
        BY <1>2, <1>3, <2>1, <2>2, <3>1, SuiteHandled
    <2>3. CASE execution[r.m] \notin {"running", "failed"}
      <3>1. execution' = execution /\ Suite!Arrived(r, "refused")
        BY <1>6, <2>3 DEF Suite!HandleFail
      <3>. QED
        BY <1>2, <1>3, <2>1, <2>3, <3>1, SuiteHandled
    <2>. QED
      BY <2>2, <2>3
  <1>. QED
    BY <1>1, <1>4, <1>5, <1>6

(* A step that leaves the scenarios reported, the requests and the control   *)
(* plane alone.                                                              *)
LEMMA SuiteKept ==
  ASSUME SuiteInv, requests' = requests, execution' = execution, verdict' = verdict,
         options' = options, outcome' = outcome, member' = member, stopped' = stopped,
         exitCode' = exitCode, complete' = complete, aborted => aborted'
  PROVE  /\ \A op, m : Travels(op, m)' <=> Travels(op, m)
         /\ \A m : IsFinal(m)' <=> IsFinal(m)
         /\ NetInv' /\ StopInv'
         /\ \A m \in 1..Len(outcome)' : MemberInv(m)'
  <1>1. \A op, m : Travels(op, m)' <=> Travels(op, m)
    BY DEF Travels
  <1>2. \A m : (IsFinal(m)' <=> IsFinal(m)) /\ (IsClosed(m)' <=> IsClosed(m))
    BY <1>1 DEF IsFinal, IsClosed
  <1>3. NetInv'
    BY <1>1 DEF SuiteInv, NetInv
  <1>4. ASSUME NEW m \in 1..Len(outcome)' PROVE MemberInv(m)'
    BY <1>2 DEF SuiteInv, MemberInv
  <1>5. StopInv'
    BY DEF SuiteInv, StopInv
  <1>. QED
    BY <1>1, <1>2, <1>3, <1>4, <1>5

\* A request ends without an answer.
LEMMA SuiteUnanswered == ASSUME SuiteInv, Suite!Unanswered PROVE SuiteInv'
  <1>1. /\ requests' = requests /\ execution' = execution /\ verdict' = verdict
        /\ options' = options /\ outcome' = outcome /\ member' = member /\ stopped' = stopped
        /\ exitCode' = exitCode /\ complete' = complete /\ runnerPc' = runnerPc /\ cause' = cause
        /\ ctx' = ctx /\ aborted' = aborted /\ waiting' = waiting
        /\ answer = "none" /\ answer' \in {"error", "gateway"}
    BY DEF Suite!Unanswered, Suite!loops, Suite!control, Suite!contexts, Suite!suite
  <1>2. SuiteTypes' /\ PlaceInv' /\ ExitInv'
    <2>1. SuiteTypes' /\ PlaceInv'
      BY <1>1 DEF SuiteInv, SuiteTypes, PlaceInv, Suite!Files
    <2>2. ExitInv'
      BY <1>1 DEF SuiteInv, ExitInv, Suite!Files
    <2>. QED
      BY <2>1, <2>2
  <1>3. CurrentInv'
    BY <1>1, SuiteKept DEF SuiteInv, CurrentInv
  <1>. QED
    BY <1>1, <1>2, <1>3, SuiteKept DEF SuiteInv

\* A deadline passes, or the suite is cancelled.
LEMMA SuiteContextEnds == ASSUME SuiteInv, Suite!ContextEnds PROVE SuiteInv'
  <1>1. /\ requests' = requests /\ execution' = execution /\ verdict' = verdict
        /\ options' = options /\ outcome' = outcome /\ member' = member /\ stopped' = stopped
        /\ exitCode' = exitCode /\ complete' = complete /\ runnerPc' = runnerPc /\ cause' = cause
        /\ waiting' = waiting /\ answer' = answer /\ options.mode = "suite"
        /\ (aborted => aborted')
    BY DEF Suite!ContextEnds, Suite!loops, Suite!control, Suite!request, Suite!suite
  <1>2. ctx' \in {"live", "scenario_timeout", "cancelled"}
    BY DEF Suite!ContextEnds, SuiteInv, SuiteTypes
  <1>3. SuiteTypes' /\ PlaceInv'
    BY <1>1, <1>2 DEF SuiteInv, SuiteTypes, PlaceInv, Suite!Files
  <1>4. ExitInv'
    BY <1>1 DEF SuiteInv, ExitInv, Suite!Files
  <1>5. CurrentInv'
    BY <1>1, SuiteKept DEF SuiteInv, CurrentInv
  <1>. QED
    BY <1>1, <1>3, <1>4, <1>5, SuiteKept DEF SuiteInv

(* The runner goes from one of its steps to another with no request in       *)
(* progress, when nothing of the scenario is on its way.                      *)
LEMMA SuiteMoves ==
  ASSUME SuiteInv, requests' = requests, execution' = execution, verdict' = verdict,
         options' = options, outcome' = outcome, member' = member, stopped' = stopped,
         exitCode' = exitCode, complete' = complete, aborted' = aborted, ctx' = ctx,
         cause' = cause, runnerPc \in Deciding, options.valid,
         runnerPc' \in {"repeat", "running", "complete", "report"}, waiting' = "none",
         ~Travels("begin", member),
         runnerPc' # "report" => ~Travels("complete", member) /\ execution[member] # "completed",
         runnerPc' = "report" => IsFinal(member) /\ verdict[member] \in {"pass", "fail"}
  PROVE  SuiteInv'
  <1>1. SuiteTypes' /\ PlaceInv'
    BY DEF SuiteInv, SuiteTypes, PlaceInv, Suite!Files, Deciding
  <1>2. CurrentInv'
    BY SuiteKept DEF CurrentInv
  <1>3. ExitInv'
    BY DEF SuiteInv, ExitInv, Suite!Files
  <1>. QED
    BY <1>1, <1>2, <1>3, SuiteKept DEF SuiteInv

\* A request of the current scenario is sent, or given up before it is.
LEMMA SuiteSends ==
  ASSUME SuiteInv, NEW op \in {"begin", "complete", "fail"}, NEW live \in BOOLEAN, Suite!Send(op, live),
         execution' = execution, verdict' = verdict,
         options' = options, outcome' = outcome, member' = member, stopped' = stopped,
         exitCode' = exitCode, complete' = complete, aborted' = aborted, ctx' = ctx,
         cause' \in RequestCauses, runnerPc \in Deciding,
         \/ op = "begin" /\ runnerPc = "begin" /\ runnerPc' = "begin"
         \/ op = "complete" /\ runnerPc = "complete" /\ runnerPc' = "complete" /\ waiting = "none"
         \/ op = "fail" /\ runnerPc' \in {"failing", "settling"},
         runnerPc' = "failing" => ~Travels("complete", member) /\ execution[member] # "completed",
         runnerPc' = "settling" => ~Travels("begin", member)
  PROVE  SuiteInv'
  <1>1. /\ waiting' = op /\ answer' \in {"none", "error"}
        /\ requests' = requests \/ requests' = requests \cup {[op |-> op, m |-> member]}
    BY DEF Suite!Send
  <1>2. /\ member \in 1..SuiteMembers /\ member = Len(outcome) + 1 /\ Len(outcome) \in Nat
        /\ \A m \in 1..Len(outcome) : m \in 1..SuiteMembers /\ m # member
    BY ReportedMembers
  <1>3. [op |-> op, m |-> member] \in [op : {"begin", "complete", "fail"}, m : 1..SuiteMembers]
    BY <1>2
  <1>4. \A o, m : /\ Travels(o, m) => Travels(o, m)'
                  /\ Travels(o, m)' => Travels(o, m) \/ (o = op /\ m = member)
    BY <1>1 DEF Travels
  <1>5. SuiteTypes'
    BY <1>1, <1>3 DEF SuiteInv, SuiteTypes, Deciding
  <1>6. PlaceInv'
    BY DEF SuiteInv, PlaceInv, Suite!Files, Deciding
  <1>7. CurrentInv'
    BY <1>1, <1>4 DEF SuiteInv, CurrentInv
  <1>8. NetInv'
    <2>1. op = "complete" => execution[member] # "completed"
      BY DEF SuiteInv, CurrentInv
    <2>2. \A q \in requests' : q.m <= member
      BY <1>1, <1>2 DEF SuiteInv, NetInv
    <2>. QED
      BY <1>4, <2>1, <2>2 DEF SuiteInv, NetInv
  <1>9. ExitInv'
    BY DEF SuiteInv, ExitInv, Suite!Files, Deciding
  <1>10. ASSUME NEW m \in 1..Len(outcome)' PROVE MemberInv(m)'
    <2>1. m \in 1..Len(outcome) /\ m # member /\ MemberInv(m)
      BY <1>2 DEF SuiteInv
    <2>2. (IsFinal(m) => IsFinal(m)') /\ (IsClosed(m) => IsClosed(m)')
      BY <1>4, <2>1 DEF IsFinal, IsClosed
    <2>3. outcome[m].kind = "skipped" => execution'[m] = "none" /\ \A q \in requests' : q.m # m
      BY <1>1, <2>1 DEF MemberInv
    <2>. QED
      BY <2>1, <2>2, <2>3 DEF MemberInv
  <1>11. StopInv'
    BY DEF SuiteInv, StopInv
  <1>. QED
    BY <1>5, <1>6, <1>7, <1>8, <1>9, <1>10, <1>11 DEF SuiteInv

\* A scenario's result joins the others.
LEMMA SuiteFinishes ==
  ASSUME SuiteInv, NEW kind \in {"pass", "fail", "error"}, NEW code \in MemberCodes, NEW exit \in 0..3,
         Suite!Finish(kind, code, exit), runnerPc \in Deciding,
         requests' = requests, execution' = execution, verdict' = verdict,
         options' = options, member' = member, aborted' = aborted, ctx' = ctx, waiting' = "none",
         kind = "pass" => exit = 0 /\ code = "verdict", kind = "fail" => exit = 1 /\ code = "verdict",
         kind = "error" => exit \in {2, 3},
         kind # "error" => IsFinal(member) /\ verdict[member] = kind,
         code \in KnownCompleted => IsFinal(member),
         kind = "error" /\ code \notin KnownCompleted \cup {"execution_state_unknown"} => IsClosed(member)
  PROVE  SuiteInv'
  <1>1. /\ outcome' = Append(outcome, [kind |-> kind, code |-> code])
        /\ exitCode' = IF exit > exitCode THEN exit ELSE exitCode
        /\ stopped' = IF aborted THEN "cancelled"
                      ELSE IF exit # 0 /\ options.failFast THEN "fail_fast" ELSE stopped
        /\ runnerPc' = "schedule" /\ cause' = "none"
    BY DEF Suite!Finish, Suite!moreSevere
  <1>2. /\ outcome \in Seq([kind : {"pass", "fail", "error", "skipped"}, code : MemberCodes])
        /\ [kind |-> kind, code |-> code] \in [kind : {"pass", "fail", "error", "skipped"}, code : MemberCodes]
        /\ exitCode \in 0..3
    BY DEF SuiteInv, SuiteTypes
  <1>3. /\ outcome' \in Seq([kind : {"pass", "fail", "error", "skipped"}, code : MemberCodes])
        /\ Len(outcome') = Len(outcome) + 1 /\ Len(outcome) \in Nat
        /\ \A m \in 1..Len(outcome) : outcome'[m] = outcome[m]
        /\ outcome'[Len(outcome) + 1] = [kind |-> kind, code |-> code]
    BY <1>1, <1>2, Appended
  <1>4. /\ member \in 1..SuiteMembers /\ member = Len(outcome) + 1
        /\ outcome'[member].kind = kind /\ outcome'[member].code = code
        /\ 1..Len(outcome') = 1..Len(outcome) \cup {member}
    BY <1>3, ReportedMembers
  <1>5. exitCode' \in 0..3 /\ exitCode' >= exitCode /\ exitCode' >= exit
        /\ (exitCode' = exitCode \/ exitCode' = exit)
    BY <1>1, <1>2
  <1>6. SuiteTypes'
    BY <1>1, <1>3, <1>5 DEF SuiteInv, SuiteTypes, RequestCauses
  <1>7. PlaceInv'
    BY <1>1, <1>3, <1>4 DEF SuiteInv, PlaceInv, Suite!Files, Deciding
  <1>8. \A op, m : Travels(op, m)' <=> Travels(op, m)
    BY DEF Travels
  <1>9. NetInv'
    BY <1>8 DEF SuiteInv, NetInv
  <1>10. CurrentInv'
    BY <1>1 DEF CurrentInv
  <1>11. ExitInv'
    <2>1. ASSUME NEW m \in 1..Len(outcome')
          PROVE  /\ outcome'[m].kind = "fail" => exitCode' >= 1
                 /\ outcome'[m].kind = "error" => exitCode' >= 2
      <3>1. CASE m = member
        <4>1. /\ outcome'[m].kind = "fail" => exit = 1
              /\ outcome'[m].kind = "error" => exit \in {2, 3}
          BY <1>4, <3>1
        <4>2. exit = 1 => exitCode' >= 1
          BY <1>5
        <4>3. exit \in {2, 3} => exitCode' >= 2
          BY <1>5
        <4>. QED
          BY <4>1, <4>2, <4>3
      <3>2. CASE m \in 1..Len(outcome)
        <4>1. /\ outcome[m].kind = "fail" => exitCode >= 1
              /\ outcome[m].kind = "error" => exitCode >= 2
          BY <3>2 DEF SuiteInv, ExitInv
        <4>3. (exitCode >= 1 => exitCode' >= 1) /\ (exitCode >= 2 => exitCode' >= 2)
          BY <1>2, <1>5
        <4>4. outcome'[m] = outcome[m]
          BY <1>3, <3>2
        <4>. QED
          BY <4>1, <4>3, <4>4
      <3>. QED
        BY <1>4, <3>1, <3>2
    <2>2. ASSUME exitCode' = 1 PROVE \E m \in 1..Len(outcome') : outcome'[m].kind = "fail"
      <3>1. CASE exit = 1
        BY <1>4, <3>1
      <3>2. CASE exit # 1
        <4>1. exitCode = 1
          BY <1>2, <1>5, <2>2, <3>2
        <4>2. PICK m \in 1..Len(outcome) : outcome[m].kind = "fail"
          BY <4>1 DEF SuiteInv, ExitInv
        <4>. QED
          BY <1>3, <1>4, <4>2
      <3>. QED
        BY <3>1, <3>2
    <2>3. stopped' = "fail_fast" => exitCode' # 0
      <3>1. (exit # 0 => exitCode' # 0) /\ (exitCode # 0 => exitCode' # 0)
        BY <1>2, <1>5
      <3>2. stopped = "fail_fast" => exitCode # 0
        BY DEF SuiteInv, ExitInv
      <3>. QED
        BY <1>1, <3>1, <3>2
    <2>5. options.mode = "single" => ~aborted /\ ~options.failFast
      BY DEF SuiteInv, ExitInv
    <2>. QED
      BY <1>1, <2>1, <2>2, <2>3, <2>5 DEF ExitInv
  <1>12. ASSUME NEW m \in 1..Len(outcome)' PROVE MemberInv(m)'
    <2>1. (IsFinal(m)' <=> IsFinal(m)) /\ (IsClosed(m)' <=> IsClosed(m))
      BY <1>8 DEF IsFinal, IsClosed
    <2>2. CASE m = member
      BY <1>4, <2>1, <2>2 DEF MemberInv, KnownCompleted
    <2>3. CASE m \in 1..Len(outcome)
      BY <1>3, <2>1, <2>3 DEF SuiteInv, MemberInv
    <2>. QED
      BY <1>4, <2>2, <2>3
  <1>13. StopInv'
    <2>1. stopped' \in {"", "cancelled", "fail_fast"} /\ (stopped # "" => stopped' # "")
      BY <1>1 DEF SuiteInv, StopInv
    <2>2. stopped' = "cancelled" => aborted
      BY <1>1 DEF SuiteInv, StopInv
    <2>3. ASSUME NEW m \in 1..Len(outcome'), outcome'[m].kind = "skipped" PROVE stopped # ""
      <3>1. m # member
        BY <1>4, <2>3
      <3>2. m \in 1..Len(outcome) /\ outcome'[m] = outcome[m]
        BY <1>3, <1>4, <3>1
      <3>. QED
        BY <2>3, <3>2 DEF SuiteInv, StopInv
    <2>. QED
      BY <2>1, <2>2, <2>3 DEF StopInv
  <1>. QED
    BY <1>6, <1>7, <1>9, <1>10, <1>11, <1>12, <1>13 DEF SuiteInv

\* The execution is begun at the control plane.
LEMMA SuiteBegin == ASSUME SuiteInv, Suite!Begin PROVE SuiteInv'
  BY SuiteSends DEF Suite!Begin, Suite!loops, Suite!control, Suite!contexts, Suite!suite, SuiteInv,
     SuiteTypes, Deciding

\* A step inside a scenario is one of a valid suite.
LEMMA DecidingIsValid == ASSUME SuiteInv, runnerPc \in Deciding PROVE options.valid
  <1>1. options.valid \in BOOLEAN
    BY DEF SuiteInv, SuiteTypes
  <1>. QED
    BY <1>1 DEF SuiteInv, PlaceInv, Deciding

\* What came of the begin: the first repetition, an error, or an execution to give up.
LEMMA SuiteBegun == ASSUME SuiteInv, Suite!Begun PROVE SuiteInv'
  <1>1. /\ runnerPc = "begin" /\ waiting = "begin" /\ runnerPc \in Deciding
        /\ options' = options /\ member' = member /\ execution' = execution /\ verdict' = verdict
        /\ ctx' = ctx /\ aborted' = aborted
    BY DEF Suite!Begun, Suite!control, Suite!contexts, Deciding
  <1>2. ~Travels("complete", member) /\ execution[member] # "completed"
    BY <1>1 DEF SuiteInv, CurrentInv
  <1>3. ctx \in {"live", "scenario_timeout", "cancelled"}
    BY DEF SuiteInv, SuiteTypes
  <1>4. ASSUME NEW why \in RequestCauses, Suite!Abort(why) PROVE SuiteInv'
    <2>1. /\ Suite!Send("fail", TRUE) /\ runnerPc' = "failing" /\ cause' = why
          /\ outcome' = outcome /\ stopped' = stopped /\ exitCode' = exitCode /\ complete' = complete
      BY <1>4 DEF Suite!Abort, Suite!suite
    <2>. QED
      BY <1>1, <1>2, <2>1, SuiteSends
  <1>5. ASSUME Suite!Settled, Suite!Finish("error", "operational", 3) PROVE SuiteInv'
    <2>1. waiting' = "none" /\ requests' = requests
      BY <1>5 DEF Suite!Settled
    <2>2. IsClosed(member) /\ "operational" \in MemberCodes /\ "operational" \notin KnownCompleted
      BY <1>2 DEF IsClosed, MemberCodes, RequestCauses, KnownCompleted
    <2>. QED
      BY <1>1, <1>5, <2>1, <2>2, SuiteFinishes
  <1>6. CASE answer = "ok" /\ Suite!Settled /\ runnerPc' = "repeat" /\ UNCHANGED <<cause, Suite!suite>>
    <2>1. /\ waiting' = "none" /\ requests' = requests /\ cause' = cause
          /\ outcome' = outcome /\ stopped' = stopped /\ exitCode' = exitCode /\ complete' = complete
      BY <1>6 DEF Suite!Settled, Suite!suite
    <2>2. ~Travels("begin", member)
      BY <1>1, <1>6 DEF SuiteInv, CurrentInv
    <2>. QED
      BY <1>1, <1>2, <1>6, <2>1, <2>2, SuiteMoves, DecidingIsValid
  <1>. QED
    BY <1>3, <1>4, <1>5, <1>6 DEF Suite!Begun, RequestCauses

\* The context is asked before a repetition.
LEMMA SuiteStartRepetition == ASSUME SuiteInv, Suite!StartRepetition PROVE SuiteInv'
  <1>1. /\ runnerPc = "repeat" /\ runnerPc \in Deciding
        /\ options' = options /\ member' = member /\ execution' = execution /\ verdict' = verdict
        /\ ctx' = ctx /\ aborted' = aborted
    BY DEF Suite!StartRepetition, Suite!loops, Suite!control, Suite!contexts, Deciding
  <1>2. ~Travels("complete", member) /\ execution[member] # "completed" /\ ~Travels("begin", member)
        /\ waiting = "none"
    BY <1>1 DEF SuiteInv, CurrentInv
  <1>3. CASE ctx # "live" /\ Suite!Abort(ctx)
    <2>1. /\ Suite!Send("fail", TRUE) /\ runnerPc' = "failing" /\ cause' = ctx
          /\ outcome' = outcome /\ stopped' = stopped /\ exitCode' = exitCode /\ complete' = complete
      BY <1>3 DEF Suite!Abort, Suite!suite
    <2>2. ctx \in RequestCauses
      BY <1>3 DEF SuiteInv, SuiteTypes, RequestCauses
    <2>. QED
      BY <1>1, <1>2, <2>1, <2>2, SuiteSends
  <1>4. CASE ctx = "live" /\ runnerPc' = "running" /\ UNCHANGED <<cause, Suite!request, Suite!suite>>
    <2>1. /\ waiting' = waiting /\ requests' = requests /\ cause' = cause
          /\ outcome' = outcome /\ stopped' = stopped /\ exitCode' = exitCode /\ complete' = complete
      BY <1>4 DEF Suite!request, Suite!suite
    <2>. QED
      BY <1>1, <1>2, <1>4, <2>1, SuiteMoves, DecidingIsValid
  <1>. QED
    BY <1>3, <1>4 DEF Suite!StartRepetition

\* A repetition ends, one way or another.
LEMMA SuiteEndRepetition == ASSUME SuiteInv, Suite!EndRepetition PROVE SuiteInv'
  <1>1. /\ runnerPc = "running" /\ runnerPc \in Deciding
        /\ options' = options /\ member' = member /\ execution' = execution /\ verdict' = verdict
        /\ ctx' = ctx /\ aborted' = aborted
    BY DEF Suite!EndRepetition, Suite!control, Suite!contexts, Deciding
  <1>2. ~Travels("complete", member) /\ execution[member] # "completed" /\ ~Travels("begin", member)
        /\ waiting = "none"
    BY <1>1 DEF SuiteInv, CurrentInv
  <1>3. ASSUME NEW why \in RequestCauses, Suite!Abort(why) PROVE SuiteInv'
    <2>1. /\ Suite!Send("fail", TRUE) /\ runnerPc' = "failing" /\ cause' = why
          /\ outcome' = outcome /\ stopped' = stopped /\ exitCode' = exitCode /\ complete' = complete
      BY <1>3 DEF Suite!Abort, Suite!suite
    <2>. QED
      BY <1>1, <1>2, <2>1, SuiteSends
  <1>4. ASSUME runnerPc' \in {"repeat", "complete"}, UNCHANGED <<cause, Suite!request, Suite!suite>>
        PROVE  SuiteInv'
    <2>1. /\ waiting' = waiting /\ requests' = requests /\ cause' = cause
          /\ outcome' = outcome /\ stopped' = stopped /\ exitCode' = exitCode /\ complete' = complete
      BY <1>4 DEF Suite!request, Suite!suite
    <2>. QED
      BY <1>1, <1>2, <1>4, <2>1, SuiteMoves, DecidingIsValid
  <1>5. ctx \in RequestCauses \cup {"live"} /\ "repetition_failed" \in RequestCauses
        /\ "run_not_completed" \in RequestCauses
    BY DEF SuiteInv, SuiteTypes, RequestCauses
  <1>. QED
    BY <1>3, <1>4, <1>5 DEF Suite!EndRepetition

\* The completion is sent, or its body is over the limit.
LEMMA SuiteComplete == ASSUME SuiteInv, Suite!Complete PROVE SuiteInv'
  <1>1. /\ runnerPc = "complete" /\ runnerPc \in Deciding /\ waiting = "none"
        /\ options' = options /\ member' = member /\ execution' = execution /\ verdict' = verdict
        /\ ctx' = ctx /\ aborted' = aborted
    BY DEF Suite!Complete, Suite!loops, Suite!control, Suite!contexts, Deciding
  <1>2. ~Travels("complete", member) /\ execution[member] # "completed" /\ ~Travels("begin", member)
    BY <1>1 DEF SuiteInv, CurrentInv
  <1>3. ctx \in RequestCauses \cup {"live"} /\ "usage" \in RequestCauses /\ cause \in RequestCauses
    BY DEF SuiteInv, SuiteTypes, RequestCauses
  <1>4. CASE Suite!Send("complete", ctx = "live") /\ UNCHANGED <<runnerPc, cause, Suite!suite>>
    <2>1. /\ runnerPc' = runnerPc /\ cause' = cause
          /\ outcome' = outcome /\ stopped' = stopped /\ exitCode' = exitCode /\ complete' = complete
      BY <1>4 DEF Suite!suite
    <2>. QED
      BY <1>1, <1>3, <1>4, <2>1, SuiteSends
  <1>5. ASSUME NEW why \in RequestCauses, Suite!Reconcile(why) PROVE SuiteInv'
    <2>1. /\ Suite!Send("fail", TRUE) /\ runnerPc' = "settling" /\ cause' = why
          /\ outcome' = outcome /\ stopped' = stopped /\ exitCode' = exitCode /\ complete' = complete
      BY <1>5 DEF Suite!Reconcile, Suite!suite
    <2>. QED
      BY <1>1, <1>2, <2>1, SuiteSends
  <1>. QED
    BY <1>3, <1>4, <1>5 DEF Suite!Complete

\* What came of the completion.
LEMMA SuiteCompleted == ASSUME SuiteInv, Suite!Completed PROVE SuiteInv'
  <1>1. /\ runnerPc = "complete" /\ runnerPc \in Deciding /\ waiting = "complete"
        /\ options' = options /\ member' = member /\ execution' = execution /\ verdict' = verdict
        /\ ctx' = ctx /\ aborted' = aborted
    BY DEF Suite!Completed, Suite!loops, Suite!control, Suite!contexts, Deciding
  <1>2. ~Travels("begin", member)
        /\ (answer = "refused" => ~Travels("complete", member) /\ execution[member] # "completed")
        /\ (answer = "ok" => IsFinal(member) /\ verdict[member] \in {"pass", "fail", "other"})
    BY <1>1 DEF SuiteInv, CurrentInv
  <1>3. ctx \in RequestCauses \cup {"live"} /\ "operational" \in RequestCauses
    BY DEF SuiteInv, SuiteTypes, RequestCauses
  <1>4. ASSUME NEW why \in RequestCauses, Suite!Reconcile(why) PROVE SuiteInv'
    <2>1. /\ Suite!Send("fail", TRUE) /\ runnerPc' = "settling" /\ cause' = why
          /\ outcome' = outcome /\ stopped' = stopped /\ exitCode' = exitCode /\ complete' = complete
      BY <1>4 DEF Suite!Reconcile, Suite!suite
    <2>. QED
      BY <1>1, <1>2, <2>1, SuiteSends
  <1>5. ASSUME answer = "refused", Suite!Abort("operational") PROVE SuiteInv'
    <2>1. /\ Suite!Send("fail", TRUE) /\ runnerPc' = "failing" /\ cause' = "operational"
          /\ outcome' = outcome /\ stopped' = stopped /\ exitCode' = exitCode /\ complete' = complete
      BY <1>5 DEF Suite!Abort, Suite!suite
    <2>. QED
      BY <1>1, <1>2, <1>3, <1>5, <2>1, SuiteSends
  <1>6. ASSUME answer = "ok", Suite!Settled, Suite!Finish("error", "unrecognized_verdict", 3)
        PROVE  SuiteInv'
    <2>1. waiting' = "none" /\ requests' = requests
      BY <1>6 DEF Suite!Settled
    <2>2. "unrecognized_verdict" \in MemberCodes /\ "unrecognized_verdict" \in KnownCompleted
      BY DEF MemberCodes, KnownCompleted
    <2>. QED
      BY <1>1, <1>2, <1>6, <2>1, <2>2, SuiteFinishes
  <1>7. ASSUME answer = "ok", verdict[member] # "other", Suite!Settled, runnerPc' = "report",
               UNCHANGED <<cause, Suite!suite>>
        PROVE  SuiteInv'
    <2>1. /\ waiting' = "none" /\ requests' = requests /\ cause' = cause
          /\ outcome' = outcome /\ stopped' = stopped /\ exitCode' = exitCode /\ complete' = complete
      BY <1>7 DEF Suite!Settled, Suite!suite
    <2>2. verdict[member] \in {"pass", "fail"}
      BY <1>2, <1>7
    <2>. QED
      BY <1>1, <1>2, <1>7, <2>1, <2>2, SuiteMoves, DecidingIsValid
  <1>. QED
    BY <1>3, <1>4, <1>5, <1>6, <1>7 DEF Suite!Completed, Suite!definitiveRefusal

\* The report on a completed execution.
LEMMA SuiteReportDocument == ASSUME SuiteInv, Suite!reportDocument PROVE SuiteInv'
  <1>1. /\ runnerPc = "report" /\ runnerPc \in Deciding
        /\ options' = options /\ member' = member /\ execution' = execution /\ verdict' = verdict
        /\ ctx' = ctx /\ aborted' = aborted /\ waiting' = waiting /\ requests' = requests
    BY DEF Suite!reportDocument, Suite!loops, Suite!control, Suite!contexts, Suite!request, Deciding
  <1>2. IsFinal(member) /\ verdict[member] \in {"pass", "fail"} /\ waiting = "none"
    BY <1>1 DEF SuiteInv, CurrentInv
  <1>3. "verdict" \in MemberCodes /\ "verdict" \notin KnownCompleted
        /\ "contradicted" \in MemberCodes /\ "contradicted" \in KnownCompleted
    BY DEF MemberCodes, KnownCompleted
  <1>4. CASE Suite!Finish(verdict[member], "verdict", IF verdict[member] = "pass" THEN 0 ELSE 1)
    <2>1. CASE verdict[member] = "pass"
      BY <1>1, <1>2, <1>3, <1>4, <2>1, SuiteFinishes
    <2>2. CASE verdict[member] = "fail"
      BY <1>1, <1>2, <1>3, <1>4, <2>2, SuiteFinishes
    <2>. QED
      BY <1>2, <2>1, <2>2
  <1>5. CASE Suite!Finish("error", "contradicted", 3)
    BY <1>1, <1>2, <1>3, <1>5, SuiteFinishes
  <1>. QED
    BY <1>4, <1>5 DEF Suite!reportDocument

\* An execution given up before its completion was asked for, or refused it.
LEMMA SuiteFailed == ASSUME SuiteInv, Suite!Failed PROVE SuiteInv'
  <1>1. /\ runnerPc = "failing" /\ runnerPc \in Deciding
        /\ options' = options /\ member' = member /\ execution' = execution /\ verdict' = verdict
        /\ ctx' = ctx /\ aborted' = aborted /\ waiting' = "none" /\ requests' = requests
        /\ Suite!Finish("error", cause, 3)
    BY DEF Suite!Failed, Suite!loops, Suite!control, Suite!contexts, Suite!Settled, Deciding
  <1>2. IsClosed(member)
    BY <1>1 DEF SuiteInv, CurrentInv, IsClosed
  <1>3. cause \in MemberCodes /\ cause \notin KnownCompleted
    BY DEF SuiteInv, SuiteTypes, RequestCauses, MemberCodes, KnownCompleted
  <1>. QED
    BY <1>1, <1>2, <1>3, SuiteFinishes

\* A completion without an answer, as the answer to failing it or the execution tells.
LEMMA SuiteReconciled == ASSUME SuiteInv, Suite!Reconciled PROVE SuiteInv'
  <1>1. /\ runnerPc = "settling" /\ runnerPc \in Deciding
        /\ options' = options /\ member' = member /\ execution' = execution /\ verdict' = verdict
        /\ ctx' = ctx /\ aborted' = aborted /\ waiting' = "none" /\ requests' = requests
    BY DEF Suite!Reconciled, Suite!loops, Suite!control, Suite!contexts, Suite!Settled, Deciding
  <1>2. ~Travels("begin", member) /\ (answer = "ok" => execution[member] = "failed")
    BY <1>1 DEF SuiteInv, CurrentInv
  <1>3. /\ cause \in MemberCodes /\ cause \notin KnownCompleted
        /\ "execution_state_unknown" \in MemberCodes /\ "execution_state_unknown" \notin KnownCompleted
        /\ "completed_without_response" \in MemberCodes /\ "completed_without_response" \in KnownCompleted
    BY DEF SuiteInv, SuiteTypes, RequestCauses, MemberCodes, KnownCompleted
  <1>4. Suite!CauseExit \in {2, 3}
    BY DEF Suite!CauseExit
  <1>5. ASSUME execution[member] = "failed", Suite!Finish("error", cause, Suite!CauseExit) PROVE SuiteInv'
    <2>1. IsClosed(member)
      BY <1>2, <1>5 DEF IsClosed
    <2>. QED
      BY <1>1, <1>3, <1>4, <1>5, <2>1, SuiteFinishes
  <1>6. ASSUME execution[member] = "completed", Suite!Finish("error", "completed_without_response", 3)
        PROVE  SuiteInv'
    <2>1. IsFinal(member)
      BY <1>2, <1>6 DEF IsFinal
    <2>. QED
      BY <1>1, <1>3, <1>6, <2>1, SuiteFinishes
  <1>7. ASSUME Suite!Finish("error", "execution_state_unknown", 3) PROVE SuiteInv'
    BY <1>1, <1>3, <1>7, SuiteFinishes
  <1>. QED
    BY <1>2, <1>5, <1>6, <1>7 DEF Suite!Reconciled

\* What is decided before anything runs.
LEMMA SuiteDecided == ASSUME SuiteInv, runnerPc = "preflight", Suite!Decided PROVE SuiteInv'
  <1>1. /\ options' = options /\ member' = member /\ execution' = execution /\ verdict' = verdict
        /\ ctx' = ctx /\ aborted' = aborted /\ waiting' = waiting /\ requests' = requests
        /\ answer' = answer /\ cause' = cause /\ outcome' = outcome /\ stopped' = stopped
        /\ complete' = complete
        /\ \/ options.valid /\ runnerPc' = "schedule" /\ exitCode' = exitCode
           \/ ~options.valid /\ runnerPc' = "done" /\ exitCode' = 2
    BY DEF Suite!Decided, Suite!loops, Suite!control, Suite!contexts, Suite!request
  <1>2. member = 0 /\ Len(outcome) = 0 /\ waiting = "none"
    BY DEF SuiteInv, PlaceInv, CurrentInv, Deciding
  <1>3. \A op, m : Travels(op, m)' <=> Travels(op, m)
    BY <1>1 DEF Travels
  <1>4. SuiteTypes'
    BY <1>1 DEF SuiteInv, SuiteTypes
  <1>5. PlaceInv'
    BY <1>1, <1>2 DEF SuiteInv, PlaceInv, Suite!Files, Deciding
  <1>6. NetInv'
    BY <1>1, <1>3 DEF SuiteInv, NetInv
  <1>7. CurrentInv'
    BY <1>1, <1>2 DEF CurrentInv
  <1>8. 1..Len(outcome) = {} /\ outcome' = outcome
    BY <1>1, <1>2
  <1>9. ExitInv'
    <2>1. exitCode' # 1
      <3>1. exitCode # 1
        BY <1>8 DEF SuiteInv, ExitInv
      <3>. QED
        BY <1>1, <3>1
    <2>2. stopped = "fail_fast" => exitCode' # 0
      BY <1>1 DEF SuiteInv, ExitInv
    <2>. QED
      BY <1>1, <1>8, <2>1, <2>2 DEF SuiteInv, ExitInv
  <1>10. StopInv'
    BY <1>1 DEF SuiteInv, StopInv
  <1>. QED
    BY <1>4, <1>5, <1>6, <1>7, <1>8, <1>9, <1>10 DEF SuiteInv

\* The next scenario begins, or is skipped.
LEMMA SuiteScheduleNext == ASSUME SuiteInv, Suite!ScheduleNext PROVE SuiteInv'
  <1>1. /\ runnerPc = "schedule" /\ Len(outcome) < Suite!Files /\ member' = Len(outcome) + 1
        /\ options' = options /\ execution' = execution /\ verdict' = verdict
        /\ aborted' = aborted /\ waiting' = waiting /\ requests' = requests
        /\ answer' = answer /\ cause' = cause /\ exitCode' = exitCode /\ complete' = complete
    BY DEF Suite!ScheduleNext, Suite!control, Suite!request
  <1>2. /\ member = Len(outcome) /\ waiting = "none" /\ Len(outcome) \in Nat
        /\ member' \in 1..SuiteMembers /\ member' = member + 1 /\ member' <= Suite!Files
        /\ options.valid
    <2>1. member = Len(outcome) /\ waiting = "none"
      BY <1>1 DEF SuiteInv, PlaceInv, CurrentInv, Deciding
    <2>2. options.valid
      BY <1>1 DEF SuiteInv, PlaceInv
    <2>. QED
      BY <1>1, <2>1, <2>2, ReportedMembers, SuiteFiles
  <1>3. \A op, m : Travels(op, m)' <=> Travels(op, m)
    BY <1>1 DEF Travels
  <1>4. \A m : (IsFinal(m)' <=> IsFinal(m)) /\ (IsClosed(m)' <=> IsClosed(m))
    BY <1>1, <1>3 DEF IsFinal, IsClosed
  <1>5. execution[member'] = "none" /\ \A r \in requests : r.m # member' /\ r.m <= member'
    <2>1. \A r \in requests : r.m \in 1..SuiteMembers /\ r.m <= member
      BY RequestIs DEF SuiteInv, NetInv
    <2>2. member \in 0..SuiteMembers
      BY ReportedMembers
    <2>. QED
      BY <1>2, <2>1, <2>2 DEF SuiteInv, NetInv
  <1>6. ~Travels("complete", member') /\ ~Travels("begin", member')
    BY <1>5 DEF Travels
  <1>7. NetInv'
    BY <1>1, <1>2, <1>3, <1>5, ReportedMembers DEF SuiteInv, NetInv
  <1>8. CASE ~(stopped # "" \/ aborted)
    <2>1. runnerPc' = "begin" /\ ctx' = "live" /\ stopped' = stopped /\ outcome' = outcome
      BY <1>8 DEF Suite!ScheduleNext
    <2>2. SuiteTypes'
      BY <1>1, <1>2, <2>1 DEF SuiteInv, SuiteTypes, Deciding
    <2>3. PlaceInv'
      BY <1>1, <1>2, <2>1 DEF PlaceInv, Suite!Files, Deciding
    <2>4. CurrentInv'
      BY <1>1, <1>2, <1>3, <1>5, <1>6, <2>1 DEF CurrentInv
    <2>5. ExitInv'
      BY <1>1, <2>1 DEF SuiteInv, ExitInv, Suite!Files
    <2>6. ASSUME NEW m \in 1..Len(outcome)' PROVE MemberInv(m)'
      BY <1>1, <1>4, <2>1 DEF SuiteInv, MemberInv
    <2>7. StopInv'
      BY <1>1, <2>1 DEF SuiteInv, StopInv
    <2>. QED
      BY <1>7, <2>2, <2>3, <2>4, <2>5, <2>6, <2>7 DEF SuiteInv
  <1>9. CASE stopped # "" \/ aborted
    <2>0. stopped' = (IF stopped = "" THEN "cancelled" ELSE stopped)
      BY <1>9 DEF Suite!ScheduleNext
    <2>1. /\ outcome' = Append(outcome, [kind |-> "skipped", code |-> stopped'])
          /\ runnerPc' = runnerPc /\ ctx' = ctx
      BY <1>9 DEF Suite!ScheduleNext
    <2>2. /\ stopped' \in {"cancelled", "fail_fast"}
          /\ stopped' = stopped \/ (stopped' = "cancelled" /\ aborted)
      BY <1>9, <2>0 DEF SuiteInv, StopInv
    <2>3. /\ outcome \in Seq([kind : {"pass", "fail", "error", "skipped"}, code : MemberCodes])
          /\ [kind |-> "skipped", code |-> stopped']
               \in [kind : {"pass", "fail", "error", "skipped"}, code : MemberCodes]
      BY <2>2 DEF SuiteInv, SuiteTypes, MemberCodes, RequestCauses
    <2>4. /\ outcome' \in Seq([kind : {"pass", "fail", "error", "skipped"}, code : MemberCodes])
          /\ Len(outcome') = Len(outcome) + 1
          /\ \A m \in 1..Len(outcome) : outcome'[m] = outcome[m]
          /\ outcome'[Len(outcome) + 1] = [kind |-> "skipped", code |-> stopped']
      BY <2>1, <2>3, Appended
    <2>5. /\ outcome'[member'].kind = "skipped" /\ outcome'[member'].code = stopped'
          /\ 1..Len(outcome') = 1..Len(outcome) \cup {member'}
      BY <1>1, <1>2, <2>4
    <2>6. SuiteTypes'
      BY <1>1, <1>2, <2>1, <2>2, <2>4 DEF SuiteInv, SuiteTypes
    <2>7. PlaceInv'
      BY <1>1, <1>2, <2>1, <2>4 DEF PlaceInv, Suite!Files, Deciding
    <2>8. CurrentInv'
      BY <1>1, <1>2, <2>1 DEF CurrentInv
    <2>9. ExitInv'
      <3>1. ASSUME NEW m \in 1..Len(outcome')
            PROVE  /\ outcome'[m].kind = "fail" => exitCode >= 1
                   /\ outcome'[m].kind = "error" => exitCode >= 2
        BY <2>2, <2>4, <2>5 DEF SuiteInv, ExitInv
      <3>2. exitCode = 1 => \E m \in 1..Len(outcome') : outcome'[m].kind = "fail"
        BY <2>4, <2>5 DEF SuiteInv, ExitInv
      <3>3. /\ stopped' = "fail_fast" => exitCode # 0
            /\ options.mode = "single" => ~aborted /\ ~options.failFast
        BY <2>2 DEF SuiteInv, ExitInv
      <3>. QED
        BY <1>1, <2>1, <3>1, <3>2, <3>3 DEF ExitInv
    <2>10. ASSUME NEW m \in 1..Len(outcome)' PROVE MemberInv(m)'
      <3>1. CASE m = member'
        BY <1>1, <1>5, <2>2, <2>5, <3>1 DEF MemberInv, KnownCompleted
      <3>2. CASE m \in 1..Len(outcome)
        BY <1>1, <1>4, <2>4, <3>2 DEF SuiteInv, MemberInv
      <3>. QED
        BY <2>5, <3>1, <3>2
    <2>11. StopInv'
      <3>1. stopped' # ""
        BY <2>2
      <3>2. stopped' = "cancelled" => aborted
        BY <2>2 DEF SuiteInv, StopInv
      <3>. QED
        BY <1>1, <2>2, <3>1, <3>2 DEF StopInv
    <2>. QED
      BY <1>7, <2>6, <2>7, <2>8, <2>9, <2>10, <2>11 DEF SuiteInv
  <1>. QED
    BY <1>8, <1>9

\* The suite's document.
LEMMA SuiteReport == ASSUME SuiteInv, Suite!Report PROVE SuiteInv'
  <1>1. /\ runnerPc = "schedule" /\ Len(outcome) = Suite!Files /\ member' = member /\ runnerPc' = "done"
        /\ options' = options /\ execution' = execution /\ verdict' = verdict /\ ctx' = ctx
        /\ aborted' = aborted /\ waiting' = waiting /\ requests' = requests /\ outcome' = outcome
        /\ answer' = answer /\ cause' = cause /\ stopped' = stopped
    BY DEF Suite!Report, Suite!control, Suite!request, Suite!loops, Suite!contexts
  <1>2. /\ exitCode \in 0..3
        /\ options.mode \in {"single", "suite"}
    BY DEF SuiteInv, SuiteTypes
  <1>3. /\ exitCode' \in {exitCode, 3}
        /\ exitCode' # 3 => complete'
        /\ options.mode = "suite" /\ aborted => exitCode' = 3
    <2> DEFINE asked == IF options.mode = "suite" /\ aborted THEN Suite!moreSevere(exitCode, 3)
                        ELSE exitCode
               tooLarge == /\ options.mode = "suite"
                           /\ overflowed \/ retained + SuiteOverhead > SuiteLimit
    <2>1. complete' = ~tooLarge /\ exitCode' = IF tooLarge THEN 3 ELSE asked
      BY DEF Suite!Report
    <2>2. asked \in {exitCode, 3} /\ (options.mode = "suite" /\ aborted => asked = 3)
      BY <1>2 DEF Suite!moreSevere
    <2> HIDE DEF asked, tooLarge
    <2>. QED
      BY <2>1, <2>2
  <1>4. options.valid
    BY <1>1 DEF SuiteInv, PlaceInv
  <1>5. \A op, m : Travels(op, m)' <=> Travels(op, m)
    BY <1>1 DEF Travels
  <1>6. SuiteTypes'
    BY <1>1, <1>2, <1>3 DEF SuiteInv, SuiteTypes
  <1>7. PlaceInv'
    BY <1>1, <1>4 DEF SuiteInv, PlaceInv, Suite!Files, Deciding
  <1>8. NetInv'
    BY <1>1, <1>5 DEF SuiteInv, NetInv
  <1>9. CurrentInv'
    BY <1>1 DEF SuiteInv, CurrentInv
  <1>10. ExitInv'
    <2>1. ASSUME NEW m \in 1..Len(outcome)
          PROVE  /\ outcome[m].kind = "fail" => exitCode' >= 1
                 /\ outcome[m].kind = "error" => exitCode' >= 2
                 /\ outcome[m].kind = "skipped" => exitCode' # 0
      <3>1. /\ outcome[m].kind = "fail" => exitCode >= 1
            /\ outcome[m].kind = "error" => exitCode >= 2
        BY DEF SuiteInv, ExitInv
      <3>2. (exitCode >= 1 => exitCode' >= 1) /\ (exitCode >= 2 => exitCode' >= 2)
        BY <1>2, <1>3
      <3>3. outcome[m].kind = "skipped" => stopped \in {"fail_fast", "cancelled"}
        BY DEF SuiteInv, StopInv
      <3>4. stopped = "fail_fast" => exitCode # 0
        BY DEF SuiteInv, ExitInv
      <3>5. stopped = "cancelled" => aborted /\ options.mode = "suite"
        <4>1. stopped = "cancelled" => aborted
          BY DEF SuiteInv, StopInv
        <4>. QED
          BY <1>2, <4>1 DEF SuiteInv, ExitInv
      <3>6. exitCode # 0 => exitCode' # 0
        BY <1>2, <1>3
      <3>. QED
        BY <1>3, <3>1, <3>2, <3>3, <3>4, <3>5, <3>6
    <2>2. exitCode' = 1 => \E m \in 1..Len(outcome) : outcome[m].kind = "fail"
      BY <1>3 DEF SuiteInv, ExitInv
    <2>3. stopped = "fail_fast" => exitCode' # 0
      BY <1>3 DEF SuiteInv, ExitInv
    <2>4. exitCode' \in {0, 1} => complete'
      BY <1>3
    <2>5. options.mode = "single" => ~aborted /\ ~options.failFast
      BY DEF SuiteInv, ExitInv
    <2>. QED
      BY <1>1, <2>1, <2>2, <2>3, <2>4, <2>5 DEF ExitInv, Suite!Files
  <1>11. ASSUME NEW m \in 1..Len(outcome)' PROVE MemberInv(m)'
    <2>1. (IsFinal(m)' <=> IsFinal(m)) /\ (IsClosed(m)' <=> IsClosed(m))
      BY <1>1, <1>5 DEF IsFinal, IsClosed
    <2>. QED
      BY <1>1, <2>1 DEF SuiteInv, MemberInv
  <1>12. StopInv'
    BY <1>1 DEF SuiteInv, StopInv
  <1>. QED
    BY <1>6, <1>7, <1>8, <1>9, <1>10, <1>11, <1>12 DEF SuiteInv

\* Every step keeps the invariant.
LEMMA SuiteStep == ASSUME SuiteInv, [Suite!Next]_suiteVars PROVE SuiteInv'
  <1>1. CASE UNCHANGED suiteVars
    <2>1. /\ requests' = requests /\ execution' = execution /\ verdict' = verdict
          /\ options' = options /\ outcome' = outcome /\ member' = member /\ stopped' = stopped
          /\ exitCode' = exitCode /\ complete' = complete /\ runnerPc' = runnerPc /\ cause' = cause
          /\ ctx' = ctx /\ aborted' = aborted /\ waiting' = waiting /\ answer' = answer
      BY <1>1 DEF suiteVars
    <2>2. SuiteTypes' /\ PlaceInv'
      BY <2>1 DEF SuiteInv, SuiteTypes, PlaceInv, Suite!Files
    <2>3. ExitInv'
      BY <2>1 DEF SuiteInv, ExitInv, Suite!Files
    <2>4. CurrentInv'
      BY <2>1, SuiteKept DEF SuiteInv, CurrentInv
    <2>. QED
      BY <2>1, <2>2, <2>3, <2>4, SuiteKept DEF SuiteInv
  <1>2. CASE Suite!SinglePreflight \/ Suite!SuitePreflight
    BY <1>2, SuiteDecided DEF Suite!SinglePreflight, Suite!SuitePreflight
  <1>. QED
    BY <1>1, <1>2, SuiteHandle, SuiteUnanswered, SuiteContextEnds, SuiteBegin, SuiteBegun,
       SuiteStartRepetition, SuiteEndRepetition, SuiteComplete, SuiteCompleted,
       SuiteReportDocument, SuiteFailed, SuiteReconciled, SuiteScheduleNext, SuiteReport
       DEF Suite!Next

(* A suite reports each scenario as it ended at the control plane, whatever   *)
(* request of it is still travelling; its exit code covers every one; and a   *)
(* usage error begins none (eval_run.go, eval_suite.go).                      *)
THEOREM SuiteTruthful == EvidenceSpec => []SuiteIsTruthful
  <1> DEFINE PartInv == part = "suite" => SuiteInv
  <1>1. EvidenceInit => PartInv
    BY SuiteInit DEF EvidenceInit
  <1>2. PartInv /\ [EvidenceNext]_all => PartInv'
    <2> SUFFICES ASSUME PartInv, [EvidenceNext]_all, part = "suite" PROVE SuiteInv'
      BY PartStays
    <2>1. [Suite!Next]_suiteVars
      BY DEF EvidenceNext, all
    <2>. QED
      BY <2>1, SuiteStep
  <1>3. PartInv => SuiteIsTruthful
    <2> SUFFICES ASSUME SuiteInv PROVE Suite!SuiteIsTruthful
      BY DEF SuiteIsTruthful
    <2>1. Suite!MembersAreReportedAsTheyEnded
      BY DEF SuiteInv, MemberInv, IsFinal, IsClosed, KnownCompleted, Suite!MembersAreReportedAsTheyEnded
    <2>2. Suite!TheExitCodeCoversEveryMember
      <3> SUFFICES ASSUME runnerPc = "done", options.valid
                   PROVE  /\ Len(outcome) = Suite!Files
                          /\ exitCode = 0 => complete /\ Suite!Members_("pass") = 1..Suite!Files
                          /\ exitCode = 1 => complete /\ Suite!Members_("fail") # {}
                                                      /\ Suite!Members_("error") = {}
                          /\ Suite!Members_("error") # {} => exitCode \in {2, 3}
                          /\ \A m \in Suite!Members_("skipped") : exitCode # 0
        BY DEF Suite!TheExitCodeCoversEveryMember
      <3>1. /\ Len(outcome) = Suite!Files /\ exitCode \in 0..3
            /\ exitCode \in {0, 1} => complete
            /\ exitCode = 1 => \E m \in 1..Len(outcome) : outcome[m].kind = "fail"
        BY DEF SuiteInv, SuiteTypes, ExitInv
      <3>2. \A m \in 1..Len(outcome) :
              /\ outcome[m].kind = "fail" => exitCode # 0
              /\ outcome[m].kind = "error" => exitCode \in {2, 3}
              /\ outcome[m].kind = "skipped" => exitCode # 0
        BY <3>1 DEF SuiteInv, ExitInv
      <3>3. \A m \in 1..Len(outcome) : outcome[m].kind \in {"pass", "fail", "error", "skipped"}
        <4>1. outcome \in Seq([kind : {"pass", "fail", "error", "skipped"}, code : MemberCodes])
          BY DEF SuiteInv, SuiteTypes
        <4>2. \A m \in 1..Len(outcome) :
                outcome[m] \in [kind : {"pass", "fail", "error", "skipped"}, code : MemberCodes]
          BY <4>1, SeqElement
        <4>. QED
          BY <4>2
      <3>4. exitCode = 0 => Suite!Members_("pass") = 1..Suite!Files
        BY <3>1, <3>2, <3>3 DEF Suite!Members_
      <3>5. exitCode = 1 => Suite!Members_("fail") # {} /\ Suite!Members_("error") = {}
        BY <3>1, <3>2 DEF Suite!Members_
      <3>6. /\ Suite!Members_("error") # {} => exitCode \in {2, 3}
            /\ \A m \in Suite!Members_("skipped") : exitCode # 0
        BY <3>2 DEF Suite!Members_
      <3>. QED
        BY <3>1, <3>4, <3>5, <3>6
    <2>3. Suite!UsageBeginsNothing
      <3> SUFFICES ASSUME ~options.valid
                   PROVE  requests = {} /\ \A m \in 1..SuiteMembers : execution[m] = "none"
        BY DEF Suite!UsageBeginsNothing
      <3>1. member = 0
        BY DEF SuiteInv, PlaceInv
      <3>2. \A r \in requests : r.m \in 1..SuiteMembers /\ r.m <= 0
        BY <3>1, RequestIs DEF SuiteInv, NetInv
      <3>. QED
        BY <3>1, <3>2 DEF SuiteInv, NetInv
    <2>. QED
      BY <2>1, <2>2, <2>3 DEF Suite!SuiteIsTruthful
  <1>. QED
    BY <1>1, <1>2, <1>3, PTL DEF EvidenceSpec

-----------------------------------------------------------------------------
(* The changes counted between two runs. Its passes read the observations in *)
(* any order; what they have learned so far is said of those they have read. *)

NamedSpan(o) == o.trace # None /\ o.span # None
Carries(o, r) == NamedSpan(o) /\ <<o.trace, o.span>> = r
SameSpan(o, p) == NamedSpan(o) /\ o.trace = p.trace /\ o.span = p.span

\* After the first pass has read Q.
LearnedFrom(ident, twice, Q) ==
    /\ \A r \in Counting!SpanRefs :
         /\ ident[r] = None => \A o \in Q : ~Carries(o, r)
         /\ ident[r] # None => \E o \in Q : Carries(o, r) /\ o.id = ident[r]
    /\ twice <=> \E o, p \in Q : SameSpan(o, p) /\ o.id # p.id

\* The identity recorded above an occurrence.
Above(ident, o) ==
    IF o.parent = None \/ o.trace = None THEN None
    ELSE IF ident[<<o.trace, o.parent>>] = o.id THEN None
    ELSE ident[<<o.trace, o.parent>>]

\* After the second pass has read Q.
ClassifiedFrom(over, alone, ident, Q) ==
    /\ \A i, j \in CountedIdentities : j \in over[i] <=> \E o \in Q : o.id = i /\ Above(ident, o) = j
    /\ \A i \in CountedIdentities : i \in alone <=> \E o \in Q : o.id = i /\ Above(ident, o) = None

\* A set of identities each of which has a parent in it is never peeled.
Unpeelable(over, S) == \A i \in S : over[i] \cap S # {}
PeelInv(over, new, rest) == \A S \in SUBSET new : Unpeelable(over, S) => S \subseteq rest

CountingSteps == {"running", "learn", "classify", "peel", "counted", "gated", "stored"}
Histories == {"complete", "partial", "unavailable"}

CountingTypes ==
    /\ observations \subseteq CountedSpans /\ todo \subseteq observations
    /\ added \subseteq CountedIdentities /\ left \subseteq added
    /\ identityOf \in [Counting!SpanRefs -> CountedIdentities \cup {None}]
    /\ degraded \in BOOLEAN
    /\ parents \in [CountedIdentities -> SUBSET CountedIdentities]
    /\ independent \subseteq CountedIdentities
    /\ history \in Histories /\ state \in Histories /\ pc \in CountingSteps

\* What each pass has read.
PassesInv ==
    /\ LearnedFrom(identityOf, degraded,
           IF pc = "running" THEN {} ELSE IF pc = "learn" THEN observations \ todo ELSE observations)
    /\ ClassifiedFrom(parents, independent, identityOf,
           IF pc \in {"running", "learn"} THEN {}
           ELSE IF pc = "classify" THEN observations \ todo ELSE observations)
    /\ pc # "running" /\ history = "complete" => \A i \in added : \E o \in observations : o.id = i
    /\ pc \in {"running", "learn", "classify"} => left = {}
    /\ pc \in {"learn", "classify", "peel"} => state = history
    /\ pc = "peel" => history = "complete" /\ ~degraded /\ PeelInv(parents, added, left)

\* What has been counted.
CountedInv ==
    /\ UNION {changes[r] : r \in DOMAIN changes} = added
    /\ Counting!ChangeCountValid
    /\ (state = "complete") <=> (history = "complete" /\ ~Counting!Ambiguous /\ ~Counting!Cyclic)
    /\ DOMAIN changes = IF state = "complete" THEN Counting!Unexplained ELSE added

CheckOf(count, maximum, correlation) ==
    [state |-> "evaluated", actual |-> count, maximum |-> maximum,
     passed |-> count <= maximum, correlation |-> correlation]

GateInv ==
    /\ pc \notin {"gated", "stored"} => gate = Counting!NotEvaluated
    /\ \/ gate = Counting!NotEvaluated
       \/ \E m \in ChangeLimits : gate = CheckOf(Counting!Count, m, state)
    /\ pc = "stored" =>
         \/ row = Counting!changeGateColumns(gate)
         \/ /\ gate = Counting!NotEvaluated
            /\ row = [Counting!changeGateColumns(gate) EXCEPT !.check = "not_recorded"]

CountingInv ==
    /\ CountingTypes /\ PassesInv
    /\ pc \in {"counted", "gated", "stored"} => CountedInv
    /\ GateInv

\* Finite sets of the instance are those of the library.
LEMMA CountingCardinality ==
  \A S : Counting!Cardinality(S) = Cardinality(S) /\ (Counting!IsFiniteSet(S) <=> IsFiniteSet(S))
  BY DEF Counting!Cardinality, Cardinality, Counting!IsFiniteSet, IsFiniteSet

\* The spans an observation names are known.
LEMMA SpanRefsOf ==
  ASSUME NEW o \in CountedSpans
  PROVE  <<o.trace, o.span>> \in Counting!SpanRefs /\ <<o.trace, o.parent>> \in Counting!SpanRefs
  BY DEF Counting!SpanRefs

\* Above is ParentOf.
LEMMA ParentIsAbove ==
  ASSUME Counting!ShapesAssumption, CountingTypes, NEW o \in CountedSpans
  PROVE  /\ Counting!ParentOf(o) = Above(identityOf, o)
         /\ Above(identityOf, o) \in CountedIdentities \cup {None}
         /\ o.id \in CountedIdentities /\ o.id # None
  <1>1. o.id \in CountedIdentities /\ None \notin CountedIdentities
    BY DEF Counting!ShapesAssumption
  <1>2. <<o.trace, o.parent>> \in Counting!SpanRefs
    BY SpanRefsOf
  <1>3. identityOf[<<o.trace, o.parent>>] \in CountedIdentities \cup {None}
    BY <1>2 DEF CountingTypes
  <1>. QED
    BY <1>1, <1>3 DEF Counting!ParentOf, Above

\* Before anything is read.
LEMMA CountingStarts ==
  ASSUME Counting!ShapesAssumption, Counting!Init
  PROVE  CountingInv
  <1>1. CountingTypes
    BY DEF Counting!Init, CountingTypes, Histories, CountingSteps
  <1>2. PassesInv
    BY DEF Counting!Init, PassesInv, LearnedFrom, ClassifiedFrom
  <1>3. GateInv
    BY DEF Counting!Init, GateInv
  <1>. QED
    BY <1>1, <1>2, <1>3 DEF CountingInv, Counting!Init

\* An observation is retained.
LEMMA CountingRetains ==
  ASSUME CountingInv, NEW o \in CountedSpans, Counting!Retain(o)
  PROVE  CountingInv'
  <1>1. CountingTypes'
    BY DEF Counting!Retain, CountingInv, CountingTypes
  <1>2. PassesInv'
    BY DEF Counting!Retain, CountingInv, PassesInv, LearnedFrom, ClassifiedFrom
  <1>3. GateInv'
    BY DEF Counting!Retain, CountingInv, GateInv
  <1>. QED
    BY <1>1, <1>2, <1>3 DEF CountingInv, Counting!Retain

\* The comparison begins.
LEMMA CountingCompares ==
  ASSUME Counting!ShapesAssumption, CountingInv, NEW h \in Histories, Counting!Compare(h)
  PROVE  CountingInv'
  <1>1. CountingTypes'
    <2>1. added' \subseteq CountedIdentities
      BY DEF Counting!Compare, CountingInv, CountingTypes, Counting!ShapesAssumption
    <2>2. left' = {}
      BY DEF Counting!Compare, CountingInv, PassesInv
    <2>. QED
      BY <2>1, <2>2 DEF Counting!Compare, CountingInv, CountingTypes, CountingSteps, Histories
  <1>2. PassesInv'
    <2>1. LearnedFrom(identityOf, degraded, {}) /\ ClassifiedFrom(parents, independent, identityOf, {})
      BY DEF Counting!Compare, CountingInv, PassesInv
    <2>2. observations \ todo' = {}
      BY DEF Counting!Compare
    <2>3. LearnedFrom(identityOf', degraded', observations' \ todo')
      BY <2>1, <2>2 DEF Counting!Compare
    <2>4. ClassifiedFrom(parents', independent', identityOf', {})
      BY <2>1 DEF Counting!Compare
    <2>5. history' = "complete" => \A i \in added' : \E o \in observations' : o.id = i
      BY DEF Counting!Compare
    <2>6. left' = {} /\ state' = history' /\ pc' = "learn"
      BY DEF Counting!Compare, CountingInv, PassesInv
    <2>. QED
      BY <2>3, <2>4, <2>5, <2>6 DEF PassesInv
  <1>3. GateInv'
    BY DEF Counting!Compare, CountingInv, GateInv
  <1>. QED
    BY <1>1, <1>2, <1>3 DEF CountingInv, Counting!Compare

\* The first pass: one observation more, under the identity its span had first.
LEMMA LearnedMore ==
  ASSUME Counting!ShapesAssumption,
         NEW ident \in [Counting!SpanRefs -> CountedIdentities \cup {None}], NEW twice \in BOOLEAN,
         NEW Q, Q \subseteq CountedSpans, NEW o \in CountedSpans,
         LearnedFrom(ident, twice, Q),
         NEW r, r = <<o.trace, o.span>>, NEW after, NEW doubled,
         after = (IF NamedSpan(o) /\ ident[r] = None THEN [ident EXCEPT ![r] = o.id] ELSE ident),
         doubled = (twice \/ (NamedSpan(o) /\ ident[r] \notin {None, o.id}))
  PROVE  LearnedFrom(after, doubled, Q \cup {o})
  <1>1. r \in Counting!SpanRefs /\ o.id \in CountedIdentities /\ o.id # None
    BY SpanRefsOf DEF Counting!ShapesAssumption
  <1>2. ASSUME NEW x \in Counting!SpanRefs
        PROVE  /\ after[x] = None => \A p \in Q \cup {o} : ~Carries(p, x)
               /\ after[x] # None => \E p \in Q \cup {o} : Carries(p, x) /\ p.id = after[x]
    <2>1. CASE x # r
      <3>1. after[x] = ident[x]
        BY <2>1, <1>1
      <3>2. ~Carries(o, x)
        BY <2>1 DEF Carries
      <3>. QED
        BY <3>1, <3>2 DEF LearnedFrom
    <2>2. CASE x = r /\ ~NamedSpan(o)
      <3>1. after[x] = ident[x] /\ ~Carries(o, x)
        BY <2>2 DEF Carries
      <3>. QED
        BY <3>1 DEF LearnedFrom
    <2>3. CASE x = r /\ NamedSpan(o) /\ ident[r] = None
      <3>1. after[x] = o.id /\ Carries(o, x)
        BY <2>3, <1>1 DEF Carries
      <3>. QED
        BY <3>1, <1>1
    <2>4. CASE x = r /\ NamedSpan(o) /\ ident[r] # None
      <3>1. after[x] = ident[x] /\ ident[x] # None
        BY <2>4
      <3>. QED
        BY <3>1 DEF LearnedFrom
    <2>. QED
      BY <2>1, <2>2, <2>3, <2>4
  <1>3. doubled => \E u, v \in Q \cup {o} : SameSpan(u, v) /\ u.id # v.id
    <2>1. CASE twice
      BY <2>1 DEF LearnedFrom
    <2>2. CASE NamedSpan(o) /\ ident[r] \notin {None, o.id}
      <3>1. PICK p \in Q : Carries(p, r) /\ p.id = ident[r]
        BY <2>2, <1>1 DEF LearnedFrom
      <3>2. SameSpan(p, o) /\ p.id # o.id
        BY <3>1, <2>2 DEF Carries, SameSpan
      <3>. QED
        BY <3>2
    <2>. QED
      BY <2>1, <2>2
  <1>4. ASSUME NEW u \in Q \cup {o}, NEW v \in Q \cup {o}, SameSpan(u, v), u.id # v.id
        PROVE  doubled
    <2>1. CASE u \in Q /\ v \in Q
      BY <2>1, <1>4 DEF LearnedFrom
    <2>2. ASSUME NEW p \in Q, SameSpan(p, o) \/ SameSpan(o, p), p.id # o.id PROVE doubled
      <3>1. Carries(p, r) /\ NamedSpan(o)
        BY <2>2 DEF SameSpan, Carries, NamedSpan
      <3>2. ident[r] # None
        BY <3>1, <1>1 DEF LearnedFrom
      <3>3. PICK q \in Q : Carries(q, r) /\ q.id = ident[r]
        BY <3>2, <1>1 DEF LearnedFrom
      <3>4. CASE q.id = o.id
        <4>1. SameSpan(p, q) /\ p.id # q.id
          BY <3>4, <3>1, <3>3, <2>2 DEF Carries, SameSpan
        <4>. QED
          BY <4>1 DEF LearnedFrom
      <3>5. CASE q.id # o.id
        BY <3>5, <3>1, <3>2, <3>3
      <3>. QED
        BY <3>4, <3>5
    <2>3. CASE u \in Q /\ v = o
      BY <2>3, <2>2, <1>4
    <2>4. CASE u = o /\ v \in Q
      BY <2>4, <2>2, <1>4
    <2>5. CASE u = o /\ v = o
      BY <2>5, <1>4
    <2>. QED
      BY <2>1, <2>3, <2>4, <2>5
  <1>5. doubled <=> \E u, v \in Q \cup {o} : SameSpan(u, v) /\ u.id # v.id
    BY <1>3, <1>4
  <1>. QED
    BY <1>2, <1>5 DEF LearnedFrom

\* What the first pass has learned when it has read one observation more.
LEMMA CountingLearns ==
  ASSUME Counting!ShapesAssumption, CountingInv, NEW o \in CountedSpans, Counting!Learn(o)
  PROVE  CountingInv'
  <1>1. /\ pc = "learn" /\ pc' = "learn" /\ o \in todo /\ todo' = todo \ {o}
        /\ identityOf' = (IF NamedSpan(o) /\ identityOf[<<o.trace, o.span>>] = None
                          THEN [identityOf EXCEPT ![<<o.trace, o.span>>] = o.id] ELSE identityOf)
        /\ degraded' = (degraded \/ (NamedSpan(o) /\ identityOf[<<o.trace, o.span>>] \notin {None, o.id}))
        /\ UNCHANGED <<observations, history, added, parents, independent, left, changes, state,
                       gate, row>>
    BY DEF Counting!Learn, NamedSpan
  <1>2. CountingTypes'
    <2>1. <<o.trace, o.span>> \in Counting!SpanRefs /\ o.id \in CountedIdentities
      BY SpanRefsOf DEF Counting!ShapesAssumption
    <2>2. identityOf' \in [Counting!SpanRefs -> CountedIdentities \cup {None}]
      BY <1>1, <2>1 DEF CountingInv, CountingTypes
    <2>3. degraded' \in BOOLEAN
      BY <1>1 DEF CountingInv, CountingTypes
    <2>. QED
      BY <1>1, <2>2, <2>3 DEF CountingInv, CountingTypes
  <1>3. PassesInv'
    <2>1. LearnedFrom(identityOf, degraded, observations \ todo)
      BY <1>1 DEF CountingInv, PassesInv
    <2>2. (observations \ todo) \cup {o} = observations' \ todo'
      BY <1>1 DEF CountingInv, CountingTypes
    <2>3. LearnedFrom(identityOf', degraded', observations' \ todo')
      <3>1. /\ identityOf \in [Counting!SpanRefs -> CountedIdentities \cup {None}]
            /\ degraded \in BOOLEAN /\ observations \ todo \subseteq CountedSpans
        BY DEF CountingInv, CountingTypes
      <3>2. LearnedFrom(identityOf', degraded', (observations \ todo) \cup {o})
        BY <1>1, <2>1, <3>1, LearnedMore
      <3>. QED
        BY <2>2, <3>2
    <2>4. ClassifiedFrom(parents, independent, identityOf, {})
      BY <1>1 DEF CountingInv, PassesInv
    <2>5. ClassifiedFrom(parents', independent', identityOf', {})
      BY <1>1, <2>4 DEF ClassifiedFrom
    <2>. QED
      BY <1>1, <2>3, <2>5 DEF CountingInv, PassesInv
  <1>4. GateInv'
    BY <1>1 DEF CountingInv, GateInv
  <1>. QED
    BY <1>1, <1>2, <1>3, <1>4 DEF CountingInv

\* The first pass has read everything.
LEMMA CountingLearned ==
  ASSUME CountingInv, Counting!LearnedAll
  PROVE  CountingInv'
  <1>1. CountingTypes'
    BY DEF Counting!LearnedAll, CountingInv, CountingTypes, CountingSteps
  <1>2. PassesInv'
    <2>1. LearnedFrom(identityOf, degraded, observations \ {})
      BY DEF Counting!LearnedAll, CountingInv, PassesInv
    <2>2. LearnedFrom(identityOf, degraded, observations)
      BY <2>1 DEF LearnedFrom
    <2>3. ClassifiedFrom(parents, independent, identityOf, {})
      BY DEF Counting!LearnedAll, CountingInv, PassesInv
    <2>4. ClassifiedFrom(parents, independent, identityOf, observations \ observations)
      BY <2>3 DEF ClassifiedFrom
    <2>. QED
      BY <2>2, <2>4 DEF Counting!LearnedAll, CountingInv, PassesInv
  <1>3. GateInv'
    BY DEF Counting!LearnedAll, CountingInv, GateInv
  <1>. QED
    BY <1>1, <1>2, <1>3 DEF CountingInv, Counting!LearnedAll

\* The second pass: one observation more is beneath an identity, or alone.
LEMMA ClassifiedMore ==
  ASSUME NEW over \in [CountedIdentities -> SUBSET CountedIdentities], NEW alone, NEW ident, NEW Q, NEW o,
         o.id \in CountedIdentities, None \notin CountedIdentities,
         Above(ident, o) \in CountedIdentities \cup {None},
         ClassifiedFrom(over, alone, ident, Q),
         NEW over2, NEW alone2,
         IF Above(ident, o) = None
           THEN alone2 = alone \cup {o.id} /\ over2 = over
           ELSE over2 = [over EXCEPT ![o.id] = @ \cup {Above(ident, o)}] /\ alone2 = alone
  PROVE  ClassifiedFrom(over2, alone2, ident, Q \cup {o})
  <1>1. ASSUME NEW i \in CountedIdentities, NEW j \in CountedIdentities
        PROVE  j \in over2[i] <=> \E p \in Q \cup {o} : p.id = i /\ Above(ident, p) = j
    <2>1. j \in over[i] <=> \E p \in Q : p.id = i /\ Above(ident, p) = j
      BY DEF ClassifiedFrom
    <2>2. j \in over2[i] <=> (j \in over[i] \/ (o.id = i /\ Above(ident, o) = j))
      <3>1. CASE Above(ident, o) = None
        BY <3>1
      <3>2. CASE Above(ident, o) # None
        BY <3>2
      <3>. QED
        BY <3>1, <3>2
    <2>. QED
      BY <2>1, <2>2
  <1>2. ASSUME NEW i \in CountedIdentities
        PROVE  i \in alone2 <=> \E p \in Q \cup {o} : p.id = i /\ Above(ident, p) = None
    <2>1. i \in alone <=> \E p \in Q : p.id = i /\ Above(ident, p) = None
      BY DEF ClassifiedFrom
    <2>2. i \in alone2 <=> (i \in alone \/ (o.id = i /\ Above(ident, o) = None))
      OBVIOUS
    <2>. QED
      BY <2>1, <2>2
  <1>. QED
    BY <1>1, <1>2 DEF ClassifiedFrom

\* What the second pass has recorded when it has classified one observation more.
LEMMA CountingClassifies ==
  ASSUME Counting!ShapesAssumption, CountingInv, NEW o \in CountedSpans, Counting!Classify(o)
  PROVE  CountingInv'
  <1> DEFINE above == Above(identityOf, o)
  <1>1. /\ Counting!ParentOf(o) = above /\ above \in CountedIdentities \cup {None}
        /\ o.id \in CountedIdentities /\ None \notin CountedIdentities
    BY ParentIsAbove DEF CountingInv, Counting!ShapesAssumption
  <1>2. /\ pc = "classify" /\ o \in todo /\ todo' = todo \ {o} /\ pc' = "classify"
        /\ IF above = None
             THEN independent' = independent \cup {o.id} /\ parents' = parents
             ELSE parents' = [parents EXCEPT ![o.id] = @ \cup {above}] /\ independent' = independent
        /\ UNCHANGED <<observations, history, added, identityOf, degraded, left, changes, state,
                       gate, row>>
    BY <1>1 DEF Counting!Classify
  <1>3. parents' \in [CountedIdentities -> SUBSET CountedIdentities]
        /\ independent' \subseteq CountedIdentities
    <2>1. CASE above = None
      BY <2>1, <1>1, <1>2 DEF CountingInv, CountingTypes
    <2>2. CASE above # None
      BY <2>2, <1>1, <1>2 DEF CountingInv, CountingTypes
    <2>. QED
      BY <2>1, <2>2
  <1>4. CountingTypes'
    BY <1>2, <1>3 DEF CountingInv, CountingTypes
  <1>5. PassesInv'
    <2>1. LearnedFrom(identityOf, degraded, observations)
          /\ ClassifiedFrom(parents, independent, identityOf, observations \ todo)
      BY <1>2 DEF CountingInv, PassesInv
    <2>2. (observations \ todo) \cup {o} = observations' \ todo'
      BY <1>2 DEF CountingInv, CountingTypes
    <2>3. parents \in [CountedIdentities -> SUBSET CountedIdentities]
      BY DEF CountingInv, CountingTypes
    <2>4. ClassifiedFrom(parents', independent', identityOf, (observations \ todo) \cup {o})
      BY <1>1, <1>2, <2>1, <2>3, ClassifiedMore
    <2>. QED
      BY <1>2, <2>1, <2>2, <2>4 DEF CountingInv, PassesInv
  <1>6. GateInv'
    BY <1>2 DEF CountingInv, GateInv
  <1>. QED
    BY <1>2, <1>4, <1>5, <1>6 DEF CountingInv

\* Two identities for one span: what the first pass noticed.
LEMMA DegradedIsAmbiguous ==
  ASSUME LearnedFrom(identityOf, degraded, observations)
  PROVE  degraded <=> Counting!Ambiguous
  BY DEF LearnedFrom, Counting!Ambiguous, SameSpan, NamedSpan

\* Where nothing is ambiguous, the identity above an occurrence is that of the
\* span it names as its parent.
LEMMA AboveIs ==
  ASSUME Counting!ShapesAssumption, CountingTypes, LearnedFrom(identityOf, degraded, observations),
         ~degraded, NEW o \in observations, NEW i \in CountedIdentities
  PROVE  Above(identityOf, o) = i <=>
           /\ o.trace # None /\ o.parent # None /\ i # o.id
           /\ \E p \in observations : p.trace = o.trace /\ p.span = o.parent /\ p.id = i
  <1> DEFINE r == <<o.trace, o.parent>>
  <1>1. o \in CountedSpans /\ r \in Counting!SpanRefs /\ i # None
    BY SpanRefsOf DEF CountingTypes, Counting!ShapesAssumption
  <1>2. ASSUME Above(identityOf, o) = i
        PROVE  /\ o.trace # None /\ o.parent # None /\ i # o.id
               /\ \E p \in observations : p.trace = o.trace /\ p.span = o.parent /\ p.id = i
    <2>1. o.trace # None /\ o.parent # None /\ i # o.id /\ identityOf[r] = i
      BY <1>1, <1>2 DEF Above
    <2>2. PICK p \in observations : Carries(p, r) /\ p.id = identityOf[r]
      BY <1>1, <2>1 DEF LearnedFrom
    <2>. QED
      BY <2>1, <2>2 DEF Carries
  <1>3. ASSUME o.trace # None, o.parent # None, i # o.id,
               NEW p \in observations, p.trace = o.trace, p.span = o.parent, p.id = i
        PROVE  Above(identityOf, o) = i
    <2>1. Carries(p, r)
      BY <1>3 DEF Carries, NamedSpan
    <2>2. identityOf[r] # None
      BY <1>1, <2>1 DEF LearnedFrom
    <2>3. PICK q \in observations : Carries(q, r) /\ q.id = identityOf[r]
      BY <1>1, <2>2 DEF LearnedFrom
    <2>4. SameSpan(p, q)
      BY <2>1, <2>3 DEF Carries, SameSpan
    <2>5. q.id = i
      BY <2>4, <1>3 DEF LearnedFrom
    <2>. QED
      BY <2>3, <2>5, <1>3 DEF Above
  <1>. QED
    BY <1>2, <1>3

\* What the passes leave says the same as the observations.
LEMMA ParentsAre ==
  ASSUME Counting!ShapesAssumption, CountingTypes, LearnedFrom(identityOf, degraded, observations),
         ~degraded, ClassifiedFrom(parents, independent, identityOf, observations),
         NEW i \in CountedIdentities, NEW j \in CountedIdentities
  PROVE  j \in parents[i] <=>
           \E o, p \in observations :
             /\ o.id = i /\ p.id = j /\ j # i
             /\ o.trace # None /\ o.parent # None /\ p.trace = o.trace /\ p.span = o.parent
  <1>1. j \in parents[i] <=> \E o \in observations : o.id = i /\ Above(identityOf, o) = j
    BY DEF ClassifiedFrom
  <1>2. \A o \in observations : Above(identityOf, o) = j <=>
           /\ o.trace # None /\ o.parent # None /\ j # o.id
           /\ \E p \in observations : p.trace = o.trace /\ p.span = o.parent /\ p.id = j
    BY AboveIs
  <1>. QED
    BY <1>1, <1>2

\* An occurrence of an identity lies beneath another one of a set.
BeneathOne(S, i) ==
    \E o, p \in observations :
        /\ o.id = i /\ p.id \in S \ {i}
        /\ o.trace # None /\ o.parent # None /\ p.trace = o.trace /\ p.span = o.parent

\* A cycle among the added identities is a set that is never peeled.
LEMMA CyclicIs ==
  ASSUME Counting!ShapesAssumption, CountingTypes, LearnedFrom(identityOf, degraded, observations),
         ~degraded, ClassifiedFrom(parents, independent, identityOf, observations)
  PROVE  Counting!Cyclic <=> \E S \in SUBSET added : S # {} /\ Unpeelable(parents, S)
  <1>1. added \subseteq CountedIdentities
    BY DEF CountingTypes
  <1>2. ASSUME NEW S \in SUBSET added, NEW i \in S
        PROVE  parents[i] \cap S # {} <=> BeneathOne(S, i)
    <2>1. i \in CountedIdentities /\ parents[i] \subseteq CountedIdentities
      BY <1>1 DEF CountingTypes
    <2>2. ASSUME NEW j \in parents[i] \cap S
          PROVE  BeneathOne(S, i)
      <3>1. j \in CountedIdentities /\ j \in parents[i] /\ j \in S
        BY <2>1
      <3>2. PICK o, p \in observations :
              /\ o.id = i /\ p.id = j /\ j # i
              /\ o.trace # None /\ o.parent # None /\ p.trace = o.trace /\ p.span = o.parent
        BY <2>1, <3>1, ParentsAre
      <3>. QED
        BY <3>1, <3>2 DEF BeneathOne
    <2>3. ASSUME NEW o \in observations, NEW p \in observations, o.id = i, p.id \in S \ {i},
                 o.trace # None, o.parent # None, p.trace = o.trace, p.span = o.parent
          PROVE  p.id \in parents[i] \cap S
      <3>1. p.id \in CountedIdentities
        BY <2>3, <1>1
      <3>. QED
        BY <3>1, <2>1, <2>3, ParentsAre
    <2>4. ASSUME BeneathOne(S, i) PROVE parents[i] \cap S # {}
      BY <2>3, <2>4 DEF BeneathOne
    <2>. QED
      BY <2>2, <2>4
  <1>3. Counting!Cyclic <=> \E S \in (SUBSET added) \ {{}} : \A i \in S : BeneathOne(S, i)
    BY DEF Counting!Cyclic, BeneathOne
  <1>4. \A S \in SUBSET added : Unpeelable(parents, S) <=> \A i \in S : BeneathOne(S, i)
    BY <1>2 DEF Unpeelable
  <1>. QED
    BY <1>3, <1>4

\* The roots of a fold are the identities with an unexplained occurrence.
LEMMA UnexplainedIs ==
  ASSUME Counting!ShapesAssumption, CountingTypes, LearnedFrom(identityOf, degraded, observations),
         ~degraded, ClassifiedFrom(parents, independent, identityOf, observations),
         NEW i \in added, \E o \in observations : o.id = i
  PROVE  i \in Counting!Unexplained <=> ~Counting!foldEligible(i)
  <1>1. i \in CountedIdentities /\ parents[i] \subseteq CountedIdentities /\ added \subseteq CountedIdentities
        /\ observations \subseteq CountedSpans /\ None \notin CountedIdentities
    BY DEF CountingTypes, Counting!ShapesAssumption
  <1>2. ASSUME NEW o \in observations
        PROVE  Counting!Explained(o) <=> Above(identityOf, o) \in added
    <2>1. ASSUME Counting!Explained(o) PROVE Above(identityOf, o) \in added
      <3>1. PICK p \in observations :
              /\ o.trace # None /\ o.parent # None
              /\ p.trace = o.trace /\ p.span = o.parent
              /\ p.id \in added \ {o.id}
        BY <2>1 DEF Counting!Explained
      <3>2. Above(identityOf, o) = p.id
        BY <3>1, <1>1, AboveIs
      <3>. QED
        BY <3>1, <3>2
    <2>2. ASSUME Above(identityOf, o) \in added PROVE Counting!Explained(o)
      <3>1. PICK j \in added : j = Above(identityOf, o)
        BY <2>2
      <3>2. /\ o.trace # None /\ o.parent # None /\ j # o.id
            /\ \E p \in observations : p.trace = o.trace /\ p.span = o.parent /\ p.id = j
        BY <3>1, <1>1, AboveIs
      <3>. QED
        BY <3>1, <3>2 DEF Counting!Explained
    <2>. QED
      BY <2>1, <2>2
  <1>3. \A o \in observations : Above(identityOf, o) \in CountedIdentities \cup {None}
    BY <1>1, ParentIsAbove
  <1>4. i \in Counting!Unexplained <=> \E o \in observations : o.id = i /\ Above(identityOf, o) \notin added
    BY <1>2 DEF Counting!Unexplained
  <1>5. i \in independent <=> \E o \in observations : o.id = i /\ Above(identityOf, o) = None
    BY <1>1 DEF ClassifiedFrom
  <1>6. \A j \in CountedIdentities :
          j \in parents[i] <=> \E o \in observations : o.id = i /\ Above(identityOf, o) = j
    BY <1>1 DEF ClassifiedFrom
  <1>7. ASSUME NEW o \in observations, o.id = i, Above(identityOf, o) \notin added
        PROVE  ~Counting!foldEligible(i)
    <2>1. CASE Above(identityOf, o) = None
      BY <2>1, <1>5, <1>7 DEF Counting!foldEligible
    <2>2. CASE Above(identityOf, o) # None
      <3>1. Above(identityOf, o) \in CountedIdentities
        BY <2>2, <1>3
      <3>2. Above(identityOf, o) \in parents[i]
        BY <3>1, <1>6, <1>7
      <3>. QED
        BY <3>2, <1>7 DEF Counting!foldEligible
    <2>. QED
      BY <2>1, <2>2
  <1>8. ASSUME \A o \in observations : o.id = i => Above(identityOf, o) \in added
        PROVE  Counting!foldEligible(i)
    <2>1. i \notin independent
      BY <1>8, <1>5, <1>1
    <2>2. parents[i] \subseteq added
      BY <1>8, <1>6, <1>1
    <2>3. parents[i] # {}
      <3>1. PICK o \in observations : o.id = i
        OBVIOUS
      <3>2. Above(identityOf, o) \in added
        BY <3>1, <1>8
      <3>3. Above(identityOf, o) \in parents[i]
        BY <3>1, <3>2, <1>1, <1>6
      <3>. QED
        BY <3>3
    <2>. QED
      BY <2>1, <2>2, <2>3 DEF Counting!foldEligible
  <1>. QED
    BY <1>4, <1>7, <1>8

\* A count of some of the added identities is valid, if it counts one where
\* there is one.
LEMMA CountIsValid ==
  ASSUME Counting!ShapesAssumption, NEW A, A \subseteq CountedIdentities, NEW D, D \subseteq A,
         A # {} => D # {}
  PROVE  /\ Counting!Cardinality(D) \in Nat /\ Counting!Cardinality(D) <= Counting!Cardinality(A)
         /\ A # {} => Counting!Cardinality(D) > 0
  <1>1. IsFiniteSet(CountedIdentities)
    BY CountingCardinality DEF Counting!ShapesAssumption
  <1>2. IsFiniteSet(A) /\ IsFiniteSet(D)
    BY <1>1, FS_Subset
  <1>3. Cardinality(D) \in Nat /\ Cardinality(D) <= Cardinality(A)
    BY <1>2, FS_Subset, FS_CardinalityType
  <1>4. A # {} => Cardinality(D) > 0
    BY <1>2, <1>3, FS_EmptySet
  <1>. QED
    BY <1>3, <1>4, CountingCardinality

\* Where nothing is folded, every added identity is a change of its own.
LEMMA UnfoldedCounts ==
  ASSUME Counting!ShapesAssumption, NEW A, A \subseteq CountedIdentities, NEW f, f = [i \in A |-> {i}]
  PROVE  /\ DOMAIN f = A /\ UNION {f[r] : r \in DOMAIN f} = A
         /\ Counting!Cardinality(DOMAIN f) \in Nat
         /\ Counting!Cardinality(DOMAIN f) <= Counting!Cardinality(A)
         /\ A # {} => Counting!Cardinality(DOMAIN f) > 0
         /\ Counting!Cardinality(DOMAIN f) = Counting!Cardinality(A)
  <1>1. DOMAIN f = A
    OBVIOUS
  <1>2. UNION {f[r] : r \in DOMAIN f} = A
    OBVIOUS
  <1>. QED
    BY <1>1, <1>2, CountIsValid

\* The fold begins, or is refused at once.
LEMMA CountingFolds ==
  ASSUME Counting!ShapesAssumption, CountingInv, Counting!Fold
  PROVE  CountingInv'
  <1>1. /\ pc = "classify" /\ todo = {} /\ state = history
        /\ UNCHANGED <<observations, history, added, todo, identityOf, degraded, parents,
                       independent, gate, row>>
    BY DEF Counting!Fold, CountingInv, PassesInv
  <1>2. /\ LearnedFrom(identityOf, degraded, observations)
        /\ ClassifiedFrom(parents, independent, identityOf, observations)
    <2>1. observations \ todo = observations
      BY <1>1
    <2>. QED
      BY <1>1, <2>1 DEF CountingInv, PassesInv
  <1>3. added \subseteq CountedIdentities /\ history \in Histories /\ degraded \in BOOLEAN
    BY DEF CountingInv, CountingTypes
  <1>4. gate = Counting!NotEvaluated
    BY <1>1 DEF CountingInv, GateInv
  <1>5. CASE history # "complete" \/ degraded
    <2>1. /\ changes' = [i \in added |-> {i}]
          /\ state' = (IF history = "complete" THEN "partial" ELSE history)
          /\ left' = {} /\ pc' = "counted"
      BY <1>5 DEF Counting!Fold, Counting!unfoldedChanges
    <2>2. CountingTypes'
      BY <1>1, <1>3, <2>1 DEF CountingInv, CountingTypes, CountingSteps, Histories
    <2>3. PassesInv'
      BY <1>1, <1>2, <2>1 DEF CountingInv, PassesInv
    <2>4. GateInv'
      BY <1>1, <1>4, <2>1 DEF GateInv
    <2>5. state' # "complete"
      BY <1>5, <2>1
    <2>6. degraded <=> Counting!Ambiguous
      BY <1>2, DegradedIsAmbiguous
    <2>7. Counting!Ambiguous <=> Counting!Ambiguous'
      BY <1>1 DEF Counting!Ambiguous
    <2>8. CountedInv'
      <3>1. /\ DOMAIN changes' = added /\ UNION {changes'[r] : r \in DOMAIN changes'} = added
            /\ Counting!Cardinality(DOMAIN changes') <= Counting!Cardinality(added)
            /\ added # {} => Counting!Cardinality(DOMAIN changes') > 0
            /\ Counting!Cardinality(DOMAIN changes') = Counting!Cardinality(added)
        BY <1>3, <2>1, UnfoldedCounts
      <3>2. Counting!ChangeCountValid'
        BY <3>1, <1>1 DEF Counting!ChangeCountValid, Counting!Count
      <3>. QED
        BY <3>1, <3>2, <1>1, <1>5, <2>5, <2>6, <2>7 DEF CountedInv
    <2>. QED
      BY <2>2, <2>3, <2>4, <2>8 DEF CountingInv
  <1>6. CASE history = "complete" /\ ~degraded
    <2>1. left' = added /\ pc' = "peel" /\ UNCHANGED <<changes, state>>
      BY <1>6 DEF Counting!Fold
    <2>2. CountingTypes'
      BY <1>1, <2>1 DEF CountingInv, CountingTypes, CountingSteps
    <2>3. PassesInv'
      BY <1>1, <1>2, <1>6, <2>1 DEF CountingInv, PassesInv, PeelInv
    <2>4. GateInv'
      BY <1>1, <1>4, <2>1 DEF GateInv
    <2>. QED
      BY <2>1, <2>2, <2>3, <2>4 DEF CountingInv
  <1>. QED
    BY <1>5, <1>6, <1>3

\* An identity with no remaining parent is in no set of which each has one.
LEMMA CountingPeels ==
  ASSUME CountingInv, NEW i \in CountedIdentities, Counting!Peel(i)
  PROVE  CountingInv'
  <1>1. /\ pc = "peel" /\ pc' = "peel" /\ i \in left /\ left' = left \ {i}
        /\ (parents[i] \cap added) \cap left = {}
        /\ UNCHANGED <<observations, history, added, todo, identityOf, degraded, parents,
                       independent, changes, state, gate, row>>
    BY DEF Counting!Peel, Counting!AddedParents
  <1>2. PeelInv(parents, added, left) /\ left \subseteq added
    BY <1>1 DEF CountingInv, PassesInv, CountingTypes
  <1>3. PeelInv(parents, added, left')
    <2> SUFFICES ASSUME NEW S \in SUBSET added, Unpeelable(parents, S) PROVE S \subseteq left'
      BY DEF PeelInv
    <2>1. S \subseteq left
      BY <1>2 DEF PeelInv
    <2>2. i \notin S
      BY <2>1, <1>1 DEF Unpeelable
    <2>. QED
      BY <2>1, <2>2, <1>1
  <1>4. CountingTypes'
    BY <1>1 DEF CountingInv, CountingTypes
  <1>5. PassesInv'
    BY <1>1, <1>3 DEF CountingInv, PassesInv
  <1>6. GateInv'
    BY <1>1 DEF CountingInv, GateInv
  <1>. QED
    BY <1>1, <1>4, <1>5, <1>6 DEF CountingInv

\* What is beneath a root.
ReachOf(A, over, r) ==
    {i \in A : \A S \in SUBSET A :
       r \in S /\ (\A e \in {d \in A \X A : d[1] \in over[d[2]]} : e[1] \in S => e[2] \in S) => i \in S}

\* Without a cycle every added identity is beneath some root: those beneath
\* none would each have a parent among them.
LEMMA RootsCover ==
  ASSUME NEW A, A \subseteq CountedIdentities, NEW over \in [CountedIdentities -> SUBSET CountedIdentities],
         \A S \in SUBSET A : Unpeelable(over, S) => S = {},
         NEW R, R \subseteq A, \A i \in A \ R : over[i] # {} /\ over[i] \subseteq A,
         NEW reach, reach = [r \in R |-> ReachOf(A, over, r)]
  PROVE  UNION {reach[r] : r \in DOMAIN reach} = A
  <1> DEFINE E == {d \in A \X A : d[1] \in over[d[2]]}
             U == A \ UNION {reach[r] : r \in R}
  <1>1. \A r \in R : r \in reach[r] /\ reach[r] \subseteq A
    BY DEF ReachOf
  <1>2. ASSUME NEW r \in R, NEW i \in reach[r], NEW j \in A, i \in over[j] PROVE j \in reach[r]
    <2>1. i \in A /\ \A S \in SUBSET A : r \in S /\ (\A e \in E : e[1] \in S => e[2] \in S) => i \in S
      BY DEF ReachOf
    <2>2. ASSUME NEW S \in SUBSET A, r \in S, \A e \in E : e[1] \in S => e[2] \in S PROVE j \in S
      <3>1. i \in S
        BY <2>1, <2>2
      <3>2. <<i, j>> \in E
        BY <2>1, <1>2
      <3>. QED
        BY <3>1, <3>2, <2>2
    <2>. QED
      BY <2>2 DEF ReachOf
  <1>3. Unpeelable(over, U)
    <2> SUFFICES ASSUME NEW j \in U PROVE over[j] \cap U # {}
      BY DEF Unpeelable
    <2>1. j \in A \ R
      BY <1>1
    <2>2. PICK i \in over[j] : i \in A
      BY <2>1
    <2>3. i \in U
      BY <2>2, <1>2
    <2>. QED
      BY <2>2, <2>3
  <1>4. U = {}
    BY <1>3
  <1>5. DOMAIN reach = R
    OBVIOUS
  <1>. QED
    BY <1>1, <1>4, <1>5

\* The cycle search ends.
LEMMA CountingCloses ==
  ASSUME Counting!ShapesAssumption, CountingInv, Counting!Close
  PROVE  CountingInv'
  <1>1. /\ pc = "peel" /\ pc' = "counted" /\ \A i \in left : (parents[i] \cap added) \cap left # {}
        /\ UNCHANGED <<observations, history, added, todo, identityOf, degraded, parents,
                       independent, left, gate, row>>
    BY DEF Counting!Close, Counting!AddedParents
  <1>2. /\ LearnedFrom(identityOf, degraded, observations) /\ ~degraded
        /\ ClassifiedFrom(parents, independent, identityOf, observations)
        /\ history = "complete" /\ state = "complete" /\ PeelInv(parents, added, left)
        /\ \A i \in added : \E o \in observations : o.id = i
    BY <1>1 DEF CountingInv, PassesInv
  <1>3. /\ added \subseteq CountedIdentities /\ left \subseteq added
        /\ parents \in [CountedIdentities -> SUBSET CountedIdentities] /\ CountingTypes
    BY DEF CountingInv, CountingTypes
  <1>4. gate = Counting!NotEvaluated
    BY <1>1 DEF CountingInv, GateInv
  <1>5. ~Counting!Ambiguous
    BY <1>2, DegradedIsAmbiguous
  <1>6. Counting!Cyclic <=> left # {}
    <2>1. Counting!Cyclic <=> \E S \in SUBSET added : S # {} /\ Unpeelable(parents, S)
      BY <1>2, <1>3, CyclicIs
    <2>2. left # {} => left \in SUBSET added /\ Unpeelable(parents, left)
      BY <1>1, <1>3 DEF Unpeelable
    <2>3. left = {} => \A S \in SUBSET added : Unpeelable(parents, S) => S = {}
      BY <1>2 DEF PeelInv
    <2>. QED
      BY <2>1, <2>2, <2>3
  <1>7. /\ Counting!Ambiguous <=> Counting!Ambiguous'
        /\ Counting!Cyclic <=> Counting!Cyclic'
        /\ Counting!Unexplained' = Counting!Unexplained
    BY <1>1 DEF Counting!Ambiguous, Counting!Cyclic, Counting!Unexplained, Counting!Explained
  <1>8. PassesInv' /\ GateInv'
    BY <1>1, <1>2, <1>4 DEF PassesInv, GateInv
  <1>9. CASE left # {}
    <2>1. changes' = [i \in added |-> {i}] /\ state' = "partial"
      BY <1>9 DEF Counting!Close, Counting!unfoldedChanges
    <2>2. CountingTypes'
      BY <1>1, <1>3, <2>1 DEF CountingTypes, CountingSteps, Histories
    <2>3. /\ DOMAIN changes' = added /\ UNION {changes'[r] : r \in DOMAIN changes'} = added
          /\ Counting!Cardinality(DOMAIN changes') <= Counting!Cardinality(added)
          /\ added # {} => Counting!Cardinality(DOMAIN changes') > 0
          /\ Counting!Cardinality(DOMAIN changes') = Counting!Cardinality(added)
      BY <1>3, <2>1, UnfoldedCounts
    <2>4. Counting!ChangeCountValid'
      BY <2>3, <1>1 DEF Counting!ChangeCountValid, Counting!Count
    <2>5. CountedInv'
      BY <2>1, <2>3, <2>4, <1>1, <1>6, <1>7, <1>9 DEF CountedInv
    <2>. QED
      BY <2>2, <2>5, <1>8 DEF CountingInv
  <1>10. CASE left = {}
    <2> DEFINE R == {i \in added : ~Counting!foldEligible(i)}
    <2>1. changes' = [r \in R |-> ReachOf(added, parents, r)] /\ state' = state
      BY <1>10 DEF Counting!Close, Counting!reachableFrom, Counting!AddedEdges, ReachOf
    <2>2. CountingTypes'
      BY <1>1, <1>3, <2>1 DEF CountingTypes, CountingSteps
    <2>3. \A S \in SUBSET added : Unpeelable(parents, S) => S = {}
      BY <1>2, <1>10 DEF PeelInv
    <2>4. \A i \in added \ R : parents[i] # {} /\ parents[i] \subseteq added
      BY DEF Counting!foldEligible
    <2>5. R \subseteq added
      OBVIOUS
    <2>6. Counting!Unexplained = R
      <3>1. \A i \in added : i \in Counting!Unexplained <=> ~Counting!foldEligible(i)
        BY <1>2, <1>3, UnexplainedIs
      <3>2. Counting!Unexplained \subseteq added
        BY DEF Counting!Unexplained
      <3>. QED
        BY <3>1, <3>2
    <2>7. DOMAIN changes' = R
      BY <2>1
    <2> HIDE DEF R
    <2>8. UNION {changes'[r] : r \in DOMAIN changes'} = added
      BY <1>3, <2>1, <2>3, <2>4, <2>5, RootsCover
    <2>9. added # {} => R # {}
      BY <2>7, <2>8
    <2>10. /\ Counting!Cardinality(R) <= Counting!Cardinality(added)
           /\ added # {} => Counting!Cardinality(R) > 0
      BY <1>3, <2>5, <2>9, CountIsValid
    <2>11. Counting!ChangeCountValid'
      BY <2>10, <2>7, <2>1, <1>1, <1>2 DEF Counting!ChangeCountValid, Counting!Count
    <2>12. CountedInv'
      BY <2>1, <2>6, <2>7, <2>8, <2>11, <1>1, <1>2, <1>5, <1>6, <1>7, <1>10 DEF CountedInv
    <2>. QED
      BY <2>2, <2>12, <1>8 DEF CountingInv
  <1>. QED
    BY <1>9, <1>10

\* A count stays right while nothing it rests on changes.
LEMMA CountedStays ==
  ASSUME CountedInv, UNCHANGED <<observations, history, added, changes, state>>
  PROVE  CountedInv'
  <1>1. /\ Counting!Ambiguous <=> Counting!Ambiguous'
        /\ Counting!Cyclic <=> Counting!Cyclic'
        /\ Counting!Unexplained' = Counting!Unexplained
    BY DEF Counting!Ambiguous, Counting!Cyclic, Counting!Unexplained, Counting!Explained
  <1>2. Counting!ChangeCountValid'
    BY DEF CountedInv, Counting!ChangeCountValid, Counting!Count
  <1>3. UNION {changes'[r] : r \in DOMAIN changes'} = added'
    BY DEF CountedInv
  <1>. QED
    BY <1>1, <1>2, <1>3 DEF CountedInv

\* The gate is asked about a valid count.
LEMMA CountingGates ==
  ASSUME CountingInv, NEW m \in ChangeLimits \cup {None}, Counting!EvaluateGate(m)
  PROVE  CountingInv'
  <1>1. /\ pc = "counted" /\ pc' = "gated"
        /\ UNCHANGED <<observations, history, added, todo, identityOf, degraded, parents,
                       independent, left, changes, state, row>>
    BY DEF Counting!EvaluateGate
  <1>2. CountedInv
    BY <1>1 DEF CountingInv
  <1>3. gate' = IF m = None THEN Counting!NotEvaluated ELSE CheckOf(Counting!Count, m, state)
    BY <1>2 DEF Counting!EvaluateGate, CountedInv, CheckOf
  <1>4. CountedInv'
    BY <1>1, <1>2, CountedStays
  <1>5. CountingTypes'
    BY <1>1 DEF CountingInv, CountingTypes, CountingSteps
  <1>6. PassesInv'
    BY <1>1 DEF CountingInv, PassesInv
  <1>7. GateInv'
    <2>1. Counting!Count' = Counting!Count
      BY <1>1 DEF Counting!Count
    <2>. QED
      BY <1>1, <1>3, <2>1 DEF GateInv
  <1>. QED
    BY <1>4, <1>5, <1>6, <1>7 DEF CountingInv

\* The promotion keeps its columns.
LEMMA CountingStores ==
  ASSUME CountingInv, Counting!Store
  PROVE  CountingInv'
  <1>1. /\ pc = "gated" /\ pc' = "stored"
        /\ UNCHANGED <<observations, history, added, todo, identityOf, degraded, parents,
                       independent, left, changes, state, gate>>
    BY DEF Counting!Store
  <1>2. \/ row' = Counting!changeGateColumns(gate)
        \/ /\ gate = Counting!NotEvaluated
           /\ row' = [Counting!changeGateColumns(gate) EXCEPT !.check = "not_recorded"]
    BY DEF Counting!Store
  <1>3. CountedInv
    BY <1>1 DEF CountingInv
  <1>4. CountedInv'
    BY <1>1, <1>3, CountedStays
  <1>5. CountingTypes'
    BY <1>1 DEF CountingInv, CountingTypes, CountingSteps
  <1>6. PassesInv'
    BY <1>1 DEF CountingInv, PassesInv
  <1>7. GateInv'
    <2>1. Counting!Count' = Counting!Count
      BY <1>1 DEF Counting!Count
    <2>2. Counting!changeGateColumns(gate)' = Counting!changeGateColumns(gate)
      BY <1>1 DEF Counting!changeGateColumns
    <2>. QED
      BY <1>1, <1>2, <2>1, <2>2 DEF CountingInv, GateInv
  <1>. QED
    BY <1>4, <1>5, <1>6, <1>7 DEF CountingInv

\* Every step of the counting keeps its invariant.
LEMMA CountingStep ==
  ASSUME Counting!ShapesAssumption, CountingInv, [Counting!Next]_countingVars
  PROVE  CountingInv'
  <1>1. CASE Counting!Next
    <2>1. ASSUME NEW o \in CountedSpans, Counting!Retain(o) \/ Counting!Learn(o) \/ Counting!Classify(o)
          PROVE  CountingInv'
      BY <2>1, CountingRetains, CountingLearns, CountingClassifies
    <2>2. ASSUME NEW h \in Histories, Counting!Compare(h) PROVE CountingInv'
      BY <2>2, CountingCompares
    <2>3. ASSUME NEW i \in CountedIdentities, Counting!Peel(i) PROVE CountingInv'
      BY <2>3, CountingPeels
    <2>4. ASSUME NEW m \in ChangeLimits \cup {None}, Counting!EvaluateGate(m) PROVE CountingInv'
      BY <2>4, CountingGates
    <2>5. CASE Counting!LearnedAll \/ Counting!Fold \/ Counting!Close \/ Counting!Store
      BY <2>5, CountingLearned, CountingFolds, CountingCloses, CountingStores
    <2>. QED
      BY <1>1, <2>1, <2>2, <2>3, <2>4, <2>5 DEF Counting!Next, Histories
  <1>2. CASE UNCHANGED countingVars
    <2>1. CountingTypes' /\ PassesInv'
      BY <1>2 DEF CountingInv, countingVars, CountingTypes, PassesInv
    <2>2. GateInv'
      BY <1>2 DEF CountingInv, countingVars, GateInv, Counting!Count, Counting!changeGateColumns
    <2>3. CountedInv => CountedInv'
      BY <1>2, CountedStays DEF countingVars
    <2>. QED
      BY <1>2, <2>1, <2>2, <2>3 DEF CountingInv, countingVars
  <1>. QED
    BY <1>1, <1>2

\* What the columns restore is what was decided.
LEMMA ColumnsRestore ==
  ASSUME Counting!ShapesAssumption, NEW count \in Nat, NEW m \in ChangeLimits, NEW h \in Histories
  PROVE  Counting!restoreChangeGate(Counting!changeGateColumns(CheckOf(count, m, h))) = CheckOf(count, m, h)
  <1> DEFINE c == [check |-> "evaluated", maximum |-> m, actual |-> count, passed |-> count <= m,
                   correlation |-> h]
  <1>1. Counting!changeGateColumns(CheckOf(count, m, h)) = c
    BY DEF CheckOf, Counting!changeGateColumns
  <1>2. {f \in DOMAIN c \ {"check"} : c[f] # None} = DOMAIN c \ {"check"}
    <2>1. m # None /\ count # None /\ h # None
      BY DEF Counting!ShapesAssumption, Histories
    <2>3. c.passed # None
      <3>1. None # TRUE /\ None # FALSE
        BY DEF Counting!ShapesAssumption
      <3>2. c.passed = TRUE \/ c.passed = FALSE
        OBVIOUS
      <3>. QED
        BY <3>1, <3>2
    <2>2. DOMAIN c = {"check", "maximum", "actual", "passed", "correlation"}
      OBVIOUS
    <2>. QED
      BY <2>1, <2>2, <2>3
  <1>. QED
    BY <1>1, <1>2 DEF Counting!restoreChangeGate, CheckOf

\* A check stored without a verdict is read back as the state it is in.
LEMMA NothingRestores ==
  ASSUME NEW check, check # "evaluated", NEW c,
         c = [check |-> check, maximum |-> None, actual |-> None, passed |-> None, correlation |-> None]
  PROVE  Counting!restoreChangeGate(c) = [state |-> check]
  <1>1. {f \in DOMAIN c \ {"check"} : c[f] # None} = {}
    <2>1. DOMAIN c = {"check", "maximum", "actual", "passed", "correlation"}
      OBVIOUS
    <2>. QED
      BY <2>1
  <1>. QED
    BY <1>1 DEF Counting!restoreChangeGate

\* The invariant gives the count its meaning.
LEMMA CountingSound ==
  ASSUME Counting!ShapesAssumption, CountingInv
  PROVE  Counting!CountIsRight
  <1>1. pc \in {"counted", "gated", "stored"} => CountedInv
    BY DEF CountingInv
  <1>2. gate = Counting!NotEvaluated \/ \E m \in ChangeLimits : gate = CheckOf(Counting!Count, m, state)
    BY DEF CountingInv, GateInv
  <1>3. gate.state # "refused"
    BY <1>2 DEF CheckOf, Counting!NotEvaluated
  <1>4. gate.state = "evaluated" => (gate.passed <=> Counting!Count <= gate.maximum)
    <2>1. CASE gate = Counting!NotEvaluated
      BY <2>1 DEF Counting!NotEvaluated
    <2>2. ASSUME NEW m \in ChangeLimits, gate = CheckOf(Counting!Count, m, state)
          PROVE  gate.passed <=> Counting!Count <= gate.maximum
      BY <2>2 DEF CheckOf
    <2>. QED
      BY <1>2, <2>1, <2>2
  <1>5. ASSUME pc = "stored"
        PROVE  Counting!restoreChangeGate(row) \in
                 {gate} \cup (IF gate = Counting!NotEvaluated THEN {[state |-> "not_recorded"]} ELSE {})
    <2>1. \/ row = Counting!changeGateColumns(gate)
          \/ /\ gate = Counting!NotEvaluated
             /\ row = [Counting!changeGateColumns(gate) EXCEPT !.check = "not_recorded"]
      BY <1>5 DEF CountingInv, GateInv
    <2>2. CASE gate = Counting!NotEvaluated
      <3> DEFINE c(k) == [check |-> k, maximum |-> None, actual |-> None, passed |-> None,
                          correlation |-> None]
      <3>1. Counting!changeGateColumns(gate) = c("not_evaluated")
        BY <2>2 DEF Counting!changeGateColumns, Counting!NotEvaluated
      <3>2. row = c("not_evaluated") \/ row = c("not_recorded")
        BY <2>1, <3>1
      <3>3. Counting!restoreChangeGate(c("not_evaluated")) = [state |-> "not_evaluated"]
        BY NothingRestores
      <3>4. Counting!restoreChangeGate(c("not_recorded")) = [state |-> "not_recorded"]
        BY NothingRestores
      <3> HIDE DEF c
      <3>. QED
        BY <2>2, <3>2, <3>3, <3>4 DEF Counting!NotEvaluated
    <2>3. CASE gate # Counting!NotEvaluated
      <3>1. PICK m \in ChangeLimits : gate = CheckOf(Counting!Count, m, state)
        BY <2>3, <1>2
      <3>2. state \in Histories /\ added \subseteq CountedIdentities
        BY DEF CountingInv, CountingTypes
      <3>3. Counting!Count \in Nat
        <4>1. CountedInv
          BY <1>1, <1>5
        <4>2. DOMAIN changes \subseteq added
          BY <4>1 DEF CountedInv, Counting!Unexplained
        <4>3. IsFiniteSet(CountedIdentities)
          BY CountingCardinality DEF Counting!ShapesAssumption
        <4>4. IsFiniteSet(DOMAIN changes)
          BY <4>2, <4>3, <3>2, FS_Subset
        <4>. QED
          BY <4>4, FS_CardinalityType, CountingCardinality DEF Counting!Count
      <3>. QED
        BY <2>1, <2>3, <3>1, <3>2, <3>3, ColumnsRestore
    <2>. QED
      BY <2>2, <2>3
  <1>. QED
    BY <1>1, <1>3, <1>4, <1>5 DEF Counting!CountIsRight, CountedInv, Counting!Count

\* The changes counted between two runs are the new behaviors nothing else
\* explains, or all of them where the evidence is not conclusive, and the gate
\* and its stored columns say so, for every set of identities and spans
\* (counting.go foldAddedChanges, gate.go, promotion_store.go).
THEOREM CountRight == EvidenceSpec => []CountIsRight
  <1> DEFINE PartInv == part = "counting" => CountingInv
  <1>1. EvidenceInit => PartInv
    BY CountingStarts, PartsAssumption DEF EvidenceInit
  <1>2. PartInv /\ [EvidenceNext]_all => PartInv'
    <2> SUFFICES ASSUME PartInv, [EvidenceNext]_all, part = "counting" PROVE CountingInv'
      BY PartStays
    <2>1. [Counting!Next]_countingVars
      BY DEF EvidenceNext, all
    <2>. QED
      BY <2>1, CountingStep, PartsAssumption
  <1>3. PartInv => CountIsRight
    BY CountingSound, PartsAssumption DEF CountIsRight
  <1>. QED
    BY <1>1, <1>2, <1>3, PTL DEF EvidenceSpec

-----------------------------------------------------------------------------
(* What a reader is told about a finding. A page holds the next few numbers  *)
(* of a set; what the reader has got is the set up to the last one.          *)

\* A set of naturals that is not empty has a least element.
LEMMA LeastNatural ==
  ASSUME NEW T, T \subseteq Nat, T # {}
  PROVE  \E n \in T : \A k \in T : n <= k
  <1> DEFINE R == {ss \in Nat \X Nat : ss[1] < ss[2]}
  <1>1. IsWellFoundedOn(R, Nat)
    BY NatLessThanWellFounded DEF OpToRel
  <1>2. PICK n \in T : \A y \in T : <<y, n>> \notin R
    BY <1>1, WFMin
  <1>3. \A y \in T : ~(y < n)
    BY <1>2
  <1>. QED
    BY <1>3

\* Finite sets of the instance are those of the library.
LEMMA FindingCardinality == \A S : Finding!Cardinality(S) = Cardinality(S)
  BY DEF Finding!Cardinality, Cardinality

\* The members of S after one and up to another.
Between(S, after, i) == {j \in S : after < j /\ j <= i}

\* They are finitely many.
LEMMA BetweenFinite ==
  ASSUME NEW S, S \subseteq Nat, NEW a \in Nat, NEW i \in Nat
  PROVE  IsFiniteSet(Between(S, a, i)) /\ Cardinality(Between(S, a, i)) \in Nat
  <1>1. IsFiniteSet(a..i)
    BY FS_Interval
  <1>2. Between(S, a, i) \subseteq a..i
    <2> SUFFICES ASSUME NEW j \in Between(S, a, i) PROVE j \in a..i
      OBVIOUS
    <2>1. j \in S /\ a < j /\ j <= i
      BY DEF Between
    <2>2. j \in Nat
      BY <2>1
    <2>. QED
      BY <2>1, <2>2
  <1>. QED
    BY <1>1, <1>2, FS_Subset, FS_CardinalityType

\* There are no fewer up to a later number, and more if that is one of them.
LEMMA BetweenGrows ==
  ASSUME NEW S, S \subseteq Nat, NEW a \in Nat, NEW i \in Nat, NEW j \in Nat, i <= j
  PROVE  /\ Cardinality(Between(S, a, i)) <= Cardinality(Between(S, a, j))
         /\ i < j /\ j \in S /\ a < j => Cardinality(Between(S, a, i)) < Cardinality(Between(S, a, j))
  <1>1. /\ IsFiniteSet(Between(S, a, i)) /\ Cardinality(Between(S, a, i)) \in Nat
        /\ IsFiniteSet(Between(S, a, j)) /\ Cardinality(Between(S, a, j)) \in Nat
    BY BetweenFinite
  <1>2. Between(S, a, i) \subseteq Between(S, a, j)
    <2> SUFFICES ASSUME NEW k \in Between(S, a, i) PROVE k \in Between(S, a, j)
      OBVIOUS
    <2>1. k \in S /\ a < k /\ k <= i
      BY DEF Between
    <2>2. k \in Nat
      BY <2>1
    <2>. QED
      BY <2>1, <2>2 DEF Between
  <1>3. Cardinality(Between(S, a, i)) <= Cardinality(Between(S, a, j))
    BY <1>1, <1>2, FS_Subset
  <1>4. ASSUME i < j, j \in S, a < j
        PROVE  Cardinality(Between(S, a, i)) < Cardinality(Between(S, a, j))
    <2>1. j \notin Between(S, a, i) /\ j \in Between(S, a, j)
      BY <1>4 DEF Between
    <2>2. Cardinality(Between(S, a, i) \cup {j}) = Cardinality(Between(S, a, i)) + 1
      BY <1>1, <2>1, FS_AddElement
    <2>3. Between(S, a, i) \cup {j} \subseteq Between(S, a, j)
      BY <1>2, <2>1
    <2>4. Cardinality(Between(S, a, i) \cup {j}) <= Cardinality(Between(S, a, j))
      BY <1>1, <2>3, FS_Subset
    <2>. QED
      BY <1>1, <2>2, <2>4
  <1>. QED
    BY <1>3, <1>4

\* A page, in terms of the library's cardinality.
LEMMA PageIs ==
  ASSUME NEW S, NEW a, NEW n
  PROVE  Finding!PageOf(S, a, n) = {i \in S : i > a /\ Cardinality(Between(S, a, i)) <= n}
  BY FindingCardinality DEF Finding!PageOf, Between

\* A page that is not empty has a last number.
LEMMA PageHasLast ==
  ASSUME NEW S, S \subseteq Nat, NEW a \in Nat, NEW n \in Nat, Finding!PageOf(S, a, n) # {}
  PROVE  \E m \in Finding!PageOf(S, a, n) : \A y \in Finding!PageOf(S, a, n) : y <= m
  <1> DEFINE P == Finding!PageOf(S, a, n)
             c(i) == Cardinality(Between(S, a, i))
             T == {k \in Nat : \E i \in P : k = n - c(i)}
  <1>1. P = {i \in S : i > a /\ c(i) <= n}
    BY PageIs
  <1>2. \A i \in P : i \in Nat /\ i \in S /\ a < i /\ c(i) \in Nat /\ c(i) <= n
    BY <1>1, BetweenFinite
  <1>3. T # {} /\ T \subseteq Nat
    <2>1. PICK i \in P : TRUE
      OBVIOUS
    <2>2. n - c(i) \in Nat
      BY <1>2, <2>1
    <2>. QED
      BY <2>1, <2>2
  <1>4. PICK k \in T : \A l \in T : k <= l
    BY <1>3, LeastNatural
  <1>5. PICK i \in P : k = n - c(i)
    BY <1>4
  <1>6. ASSUME NEW y \in P PROVE y <= i
    <2>1. CASE i < y
      <3>0. i \in Nat /\ y \in Nat /\ y \in S /\ a < y /\ i <= y
        BY <2>1, <1>2
      <3>1. c(i) < c(y)
        BY <2>1, <3>0, BetweenGrows
      <3>2. n - c(y) \in Nat /\ n - c(y) < n - c(i)
        BY <3>1, <1>2
      <3>3. n - c(y) \in T
        BY <3>2
      <3>. QED
        BY <3>2, <3>3, <1>4, <1>5, <1>2
    <2>2. CASE ~(i < y)
      BY <2>2, <1>2
    <2>. QED
      BY <2>1, <2>2
  <1>. QED
    BY <1>6

\* The last number of a page, or where the reader was.
LEMMA TopIs ==
  ASSUME NEW S, S \subseteq Nat, NEW a \in Nat, NEW n \in Nat, NEW P, P = Finding!PageOf(S, a, n)
  PROVE  /\ P = {} => Finding!Top(P, a) = a
         /\ P # {} => Finding!Top(P, a) \in P /\ \A y \in P : y <= Finding!Top(P, a)
         /\ Finding!Top(P, a) \in Nat /\ a <= Finding!Top(P, a)
  <1>1. \A y \in P : y \in Nat /\ y \in S /\ a < y
    BY PageIs
  <1>2. P # {} => \E m \in P : \A y \in P : y <= m
    BY PageHasLast
  <1>3. P # {} => Finding!Top(P, a) \in P /\ \A y \in P : y <= Finding!Top(P, a)
    BY <1>2 DEF Finding!Top
  <1>4. P = {} => Finding!Top(P, a) = a
    BY DEF Finding!Top
  <1>. QED
    BY <1>1, <1>3, <1>4

\* Having read a page, a reader has everything up to its last number.
LEMMA PageReads ==
  ASSUME NEW S, S \subseteq Nat, NEW a \in Nat, NEW n \in Nat, NEW P, P = Finding!PageOf(S, a, n)
  PROVE  /\ {i \in S : i <= a} \cup P = {i \in S : i <= Finding!Top(P, a)}
         /\ Finding!Top(P, a) \in Nat
         /\ Finding!Top(P, a) = a \/ Finding!Top(P, a) \in S
  <1> DEFINE t == Finding!Top(P, a)
  <1>1. P = {i \in S : i > a /\ Cardinality(Between(S, a, i)) <= n}
    BY PageIs
  <1>2. /\ P = {} => t = a
        /\ P # {} => t \in P /\ \A y \in P : y <= t
        /\ t \in Nat /\ a <= t
    BY TopIs
  <1> HIDE DEF t
  <1>3. ASSUME NEW i \in S, a < i, i <= t PROVE i \in P
    <2>1. t \in P
      BY <1>2, <1>3
    <2>2. t \in Nat /\ i \in Nat /\ Cardinality(Between(S, a, t)) <= n
      BY <2>1, <1>1, <1>2
    <2>3. Cardinality(Between(S, a, i)) <= Cardinality(Between(S, a, t))
      BY <2>2, <1>3, BetweenGrows
    <2>4. Cardinality(Between(S, a, i)) \in Nat /\ Cardinality(Between(S, a, t)) \in Nat
      BY <2>2, BetweenFinite
    <2>. QED
      BY <1>1, <1>3, <2>2, <2>3, <2>4
  <1>4. ASSUME NEW i \in P PROVE i \in S /\ i <= t
    BY <1>1, <1>2
  <1>5. \A i \in S : i \in Nat
    OBVIOUS
  <1>6. {i \in S : i <= a} \cup P = {i \in S : i <= t}
    <2>1. ASSUME NEW i \in {k \in S : k <= a} \cup P PROVE i \in S /\ i <= t
      BY <1>2, <1>4, <1>5
    <2>2. ASSUME NEW i \in S, i <= t PROVE i \in {k \in S : k <= a} \cup P
      BY <1>2, <1>3, <1>5, <2>2
    <2>. QED
      BY <2>1, <2>2
  <1>7. t = a \/ t \in S
    BY <1>1, <1>2
  <1>. QED
    BY <1>2, <1>6, <1>7 DEF t

\* An empty page is the end.
LEMMA PageEmpty ==
  ASSUME NEW S, S \subseteq Nat, NEW a \in Nat, NEW n \in Nat \ {0}, Finding!PageOf(S, a, n) = {}
  PROVE  {i \in S : i <= a} = S
  <1> DEFINE T == {i \in S : a < i}
  <1>0. \A i \in S : i \in Nat
    OBVIOUS
  <1>1. SUFFICES ASSUME T # {} PROVE FALSE
    <2>1. T = {} => \A i \in S : i <= a
      BY <1>0
    <2>. QED
      BY <2>1
  <1>2. PICK m \in T : \A k \in T : m <= k
    BY <1>1, LeastNatural
  <1>3. m \in Nat /\ m \in S /\ a < m
    BY <1>2
  <1>4. Between(S, a, m) = {m}
    <2>1. m \in Between(S, a, m)
      BY <1>3 DEF Between
    <2>2. ASSUME NEW j \in Between(S, a, m) PROVE j = m
      <3>1. j \in S /\ a < j /\ j <= m
        BY DEF Between
      <3>2. j \in T /\ j \in Nat
        BY <3>1, <1>0
      <3>. QED
        BY <3>1, <3>2, <1>2, <1>3
    <2>. QED
      BY <2>1, <2>2
  <1>5. Cardinality(Between(S, a, m)) = 1
    BY <1>4, FS_Singleton
  <1>6. m \in Finding!PageOf(S, a, n)
    BY <1>3, <1>5, PageIs
  <1>. QED
    BY <1>6

\* A page that is not full is the last one with anything in it.
LEMMA PageFull ==
  ASSUME NEW S, S \subseteq Nat, IsFiniteSet(S), NEW a \in Nat, NEW n \in Nat, NEW P, P = Finding!PageOf(S, a, n)
  PROVE  /\ IsFiniteSet(P) /\ Cardinality(P) \in Nat
         /\ Cardinality(P) >= n \/ P = {i \in S : i > a}
  <1>1. P = {i \in S : i > a /\ Cardinality(Between(S, a, i)) <= n}
    BY PageIs
  <1>2. IsFiniteSet(P) /\ Cardinality(P) \in Nat
    <2>1. P \subseteq S
      BY <1>1
    <2>. QED
      BY <2>1, FS_Subset, FS_CardinalityType
  <1> DEFINE T == {i \in S : i > a /\ i \notin P}
  <1>3. CASE T = {}
    BY <1>1, <1>2, <1>3
  <1>4. CASE T # {}
    <2>1. PICK m \in T : \A k \in T : m <= k
      BY <1>4, LeastNatural
    <2>2. m \in Nat /\ m \in S /\ a < m /\ m \notin P
      BY <2>1
    <2>3. Cardinality(Between(S, a, m)) \in Nat /\ IsFiniteSet(Between(S, a, m))
      BY <2>2, BetweenFinite
    <2>4. Cardinality(Between(S, a, m)) > n
      BY <2>2, <2>3, <1>1
    <2>5. Between(S, a, m) \subseteq P \cup {m}
      <3> SUFFICES ASSUME NEW j \in Between(S, a, m), j # m PROVE j \in P
        OBVIOUS
      <3>1. j \in Nat /\ j \in S /\ a < j /\ j < m
        BY <2>2 DEF Between
      <3>. QED
        BY <3>1, <2>1, <2>2
    <2>6. Cardinality(P \cup {m}) = Cardinality(P) + 1 /\ IsFiniteSet(P \cup {m})
      BY <1>2, <2>2, FS_AddElement
    <2>7. Cardinality(Between(S, a, m)) <= Cardinality(P \cup {m})
      BY <2>5, <2>6, FS_Subset
    <2>. QED
      BY <1>2, <2>3, <2>4, <2>6, <2>7
  <1>. QED
    BY <1>3, <1>4

-----------------------------------------------------------------------------
(* What is retained and what the snapshots say is right about the records    *)
(* accepted.                                                                 *)

EntryType == [id : Finding!Ids, behavior : {r.behavior : r \in FindingRecords}, count : Nat]
HistoryType == [retained : Nat, complete : BOOLEAN]

\* The rows retained and their history row are right about a log.
RetainedRight(lg, rw, h) ==
  /\ rw \subseteq 1..Len(lg)
  /\ h = None => rw = {}
  /\ h # None => /\ Cardinality(rw) = h.retained
                 /\ h.complete => rw = 1..Len(lg)
                 /\ h.retained <= 1 \/ h.retained <= FindingRetained

\* The positions of an identity in a log.
PlacesOf(lg, id) == {i \in DOMAIN lg : lg[i].id = id}

\* A complete snapshot has one entry for every identity, with its count.
SnapRight(lg, sn) ==
  /\ \A e \in sn.entries, f \in sn.entries : e.id = f.id => e = f
  /\ sn.complete => /\ {e.id : e \in sn.entries} = {lg[i].id : i \in DOMAIN lg}
                    /\ \A e \in sn.entries : e.count = Cardinality(PlacesOf(lg, e.id))

FindingTypes ==
  /\ schema \in {"old", "retaining"}
  /\ sides \in [Finding!Sides -> {"running", "completed"}]
  /\ log \in [Finding!Sides -> Seq(FindingRecords)]
  /\ rows \in [Finding!Sides -> SUBSET Nat]
  /\ hist \in [Finding!Sides -> {None} \cup HistoryType]
  /\ snap \in [Finding!Sides -> [entries : SUBSET EntryType, complete : BOOLEAN]]

FindingState ==
  /\ FindingTypes
  /\ schema = "old" => \A s \in Finding!Sides : hist[s] = None
  /\ \A s \in Finding!Sides : RetainedRight(log[s], rows[s], hist[s]) /\ SnapRight(log[s], snap[s])

\* Appending to a log adds one position.
LEMMA AppendedLog ==
  ASSUME NEW lg \in Seq(FindingRecords), NEW r \in FindingRecords
  PROVE  /\ Append(lg, r) \in Seq(FindingRecords) /\ Len(lg) \in Nat
         /\ Len(Append(lg, r)) = Len(lg) + 1
         /\ DOMAIN lg = 1..Len(lg) /\ DOMAIN Append(lg, r) = 1..(Len(lg) + 1)
         /\ \A i \in 1..Len(lg) : Append(lg, r)[i] = lg[i]
         /\ Append(lg, r)[Len(lg) + 1] = r
  OBVIOUS

\* Retention stays right when a record is accepted.
LEMMA RetentionStep ==
  ASSUME Finding!BoundsAssumption, NEW lg \in Seq(FindingRecords), NEW r \in FindingRecords, NEW rw \in SUBSET Nat,
         NEW h \in {None} \cup HistoryType, RetainedRight(lg, rw, h),
         NEW p, p = Finding!planObservationRetention(h, Len(lg) + 1)
  PROVE  /\ p.row \in HistoryType
         /\ RetainedRight(Append(lg, r), IF p.insert THEN rw \cup {Len(lg) + 1} ELSE rw, p.row)
  <1> DEFINE n == Len(lg) + 1
             rest == IF p.insert THEN rw \cup {n} ELSE rw
  <1>1. Len(Append(lg, r)) = n /\ Len(lg) \in Nat /\ n \in Nat
    BY AppendedLog
  <1>2. FindingRetained \in Nat /\ None \notin HistoryType
    BY DEF Finding!BoundsAssumption, HistoryType
  <1>3. rw \subseteq 1..Len(lg) /\ n \notin rw
    BY <1>1 DEF RetainedRight
  <1>4. IsFiniteSet(rw)
    <2>1. IsFiniteSet(1..Len(lg))
      BY <1>1, FS_Interval
    <2>. QED
      BY <1>3, <2>1, FS_Subset
  <1>5. Cardinality(rw) \in Nat /\ Cardinality(rw \cup {n}) = Cardinality(rw) + 1
    BY <1>3, <1>4, FS_AddElement, FS_CardinalityType
  <1>6. 1..n = (1..Len(lg)) \cup {n} /\ rest \subseteq 1..n
    <2>1. 1..n = (1..Len(lg)) \cup {n}
      BY <1>1
    <2>2. rest = rw \cup {n} \/ rest = rw
      OBVIOUS
    <2>. QED
      BY <1>3, <2>1, <2>2
  <1>7. CASE h = None
    <2>1. p = [insert |-> TRUE, row |-> [retained |-> 1, complete |-> n = 1]]
      BY <1>7 DEF Finding!planObservationRetention
    <2>2. p.row \in HistoryType /\ p.row.retained = 1 /\ (p.row.complete => n = 1) /\ p.insert
      <3>1. p.insert /\ p.row = [retained |-> 1, complete |-> n = 1]
        BY <2>1
      <3>2. [retained |-> 1, complete |-> n = 1] \in HistoryType
        BY DEF HistoryType
      <3>3. ASSUME n # 1 PROVE ~p.row.complete
        <4>1. p.row = [retained |-> 1, complete |-> FALSE]
          BY <3>1, <3>3
        <4>. QED
          BY <4>1
      <3>. QED
        BY <3>1, <3>2, <3>3
    <2>3. rw = {} /\ rest = {n}
      BY <1>7, <2>2 DEF RetainedRight
    <2>4. Cardinality(rest) = 1
      BY <2>3, FS_Singleton
    <2>5. n = 1 => 1..n = {n}
      BY <1>1
    <2>. QED
      BY <1>1, <1>2, <1>6, <2>2, <2>3, <2>4, <2>5 DEF RetainedRight
  <1>8. CASE h # None /\ h.retained >= FindingRetained
    <2>1. h \in HistoryType /\ h.retained \in Nat
      BY <1>8 DEF HistoryType
    <2>2. p = [insert |-> FALSE, row |-> [h EXCEPT !.complete = FALSE]]
      BY <1>8 DEF Finding!planObservationRetention
    <2>3. p.row \in HistoryType /\ p.row.retained = h.retained /\ ~p.row.complete /\ ~p.insert
      <3>0. p.insert = FALSE
        BY <2>2
      <3>1. ~p.insert /\ p.row = [h EXCEPT !.complete = FALSE]
        <4> DEFINE cut == [h EXCEPT !.complete = FALSE]
        <4>1. p = [insert |-> FALSE, row |-> cut]
          BY <2>2
        <4> HIDE DEF cut
        <4>2. p.row = cut
          BY <4>1
        <4>3. ~p.insert
          BY <3>0
        <4>. QED
          BY <4>2, <4>3 DEF cut
      <3>2. [h EXCEPT !.complete = FALSE] \in HistoryType
        BY <2>1 DEF HistoryType
      <3>3. [h EXCEPT !.complete = FALSE].retained = h.retained /\ ~[h EXCEPT !.complete = FALSE].complete
        BY <2>1 DEF HistoryType
      <3>. QED
        BY <3>1, <3>2, <3>3
    <2>. QED
      BY <1>1, <1>2, <1>6, <1>8, <2>1, <2>3 DEF RetainedRight
  <1>9. CASE h # None /\ ~(h.retained >= FindingRetained)
    <2>1. h \in HistoryType /\ h.retained \in Nat
      BY <1>9 DEF HistoryType
    <2>2. p = [insert |-> TRUE, row |-> [h EXCEPT !.retained = @ + 1]]
      BY <1>9 DEF Finding!planObservationRetention
    <2>3. /\ p.row \in HistoryType /\ p.row.retained = h.retained + 1 /\ (p.row.complete => h.complete)
          /\ p.insert
      BY <2>1, <2>2 DEF HistoryType
    <2>4. rest = rw \cup {n}
      BY <2>3
    <2>5. h.complete => rest = 1..n
      BY <1>6, <1>9, <2>4 DEF RetainedRight
    <2>6. Cardinality(rest) = p.row.retained
      BY <1>5, <1>9, <2>3, <2>4 DEF RetainedRight
    <2>7. p.row.retained <= FindingRetained
      BY <1>2, <1>9, <2>1, <2>3
    <2>. QED
      BY <1>1, <1>2, <1>6, <2>3, <2>5, <2>6, <2>7 DEF RetainedRight
  <1>. QED
    BY <1>7, <1>8, <1>9

\* The positions of an identity after one more record.
LEMMA PlacesGrow ==
  ASSUME NEW lg \in Seq(FindingRecords), NEW r \in FindingRecords, NEW id
  PROVE  /\ IsFiniteSet(PlacesOf(lg, id)) /\ Cardinality(PlacesOf(lg, id)) \in Nat
         /\ id = r.id => Cardinality(PlacesOf(Append(lg, r), id)) = Cardinality(PlacesOf(lg, id)) + 1
         /\ id # r.id => PlacesOf(Append(lg, r), id) = PlacesOf(lg, id)
  <1>1. /\ Len(lg) \in Nat
        /\ DOMAIN lg = 1..Len(lg) /\ DOMAIN Append(lg, r) = 1..(Len(lg) + 1)
        /\ \A i \in 1..Len(lg) : Append(lg, r)[i] = lg[i]
        /\ Append(lg, r)[Len(lg) + 1] = r
    BY AppendedLog
  <1>2. IsFiniteSet(1..Len(lg)) /\ PlacesOf(lg, id) \subseteq 1..Len(lg)
    BY <1>1, FS_Interval DEF PlacesOf
  <1>3. IsFiniteSet(PlacesOf(lg, id)) /\ Cardinality(PlacesOf(lg, id)) \in Nat
    BY <1>2, FS_Subset, FS_CardinalityType
  <1>4. 1..(Len(lg) + 1) = (1..Len(lg)) \cup {Len(lg) + 1} /\ Len(lg) + 1 \notin 1..Len(lg)
    BY <1>1
  <1>5. ASSUME id = r.id PROVE Cardinality(PlacesOf(Append(lg, r), id)) = Cardinality(PlacesOf(lg, id)) + 1
    <2>1. PlacesOf(Append(lg, r), id) = PlacesOf(lg, id) \cup {Len(lg) + 1}
      BY <1>1, <1>4, <1>5 DEF PlacesOf
    <2>2. Len(lg) + 1 \notin PlacesOf(lg, id)
      BY <1>2, <1>4
    <2>. QED
      BY <1>3, <2>1, <2>2, FS_AddElement
  <1>6. ASSUME id # r.id PROVE PlacesOf(Append(lg, r), id) = PlacesOf(lg, id)
    BY <1>1, <1>4, <1>6 DEF PlacesOf
  <1>. QED
    BY <1>3, <1>5, <1>6

\* The identities after one more record.
LEMMA SeenGrow ==
  ASSUME NEW lg \in Seq(FindingRecords), NEW r \in FindingRecords
  PROVE  {Append(lg, r)[i].id : i \in DOMAIN Append(lg, r)} = {lg[i].id : i \in DOMAIN lg} \cup {r.id}
  <1>1. /\ Len(lg) \in Nat
        /\ DOMAIN lg = 1..Len(lg) /\ DOMAIN Append(lg, r) = 1..(Len(lg) + 1)
        /\ \A i \in 1..Len(lg) : Append(lg, r)[i] = lg[i]
        /\ Append(lg, r)[Len(lg) + 1] = r
    BY AppendedLog
  <1>2. 1..(Len(lg) + 1) = (1..Len(lg)) \cup {Len(lg) + 1}
    BY <1>1
  <1>3. ASSUME NEW x \in {Append(lg, r)[i].id : i \in DOMAIN Append(lg, r)}
        PROVE  x \in {lg[i].id : i \in DOMAIN lg} \cup {r.id}
    <2>1. PICK i \in 1..(Len(lg) + 1) : x = Append(lg, r)[i].id
      BY <1>1, <1>3
    <2>2. CASE i \in 1..Len(lg)
      BY <1>1, <2>1, <2>2
    <2>3. CASE i = Len(lg) + 1
      BY <1>1, <2>1, <2>3
    <2>. QED
      BY <1>2, <2>2, <2>3
  <1>4. ASSUME NEW x \in {lg[i].id : i \in DOMAIN lg}
        PROVE  x \in {Append(lg, r)[i].id : i \in DOMAIN Append(lg, r)}
    <2>1. PICK i \in 1..Len(lg) : x = lg[i].id
      BY <1>1, <1>4
    <2>. QED
      BY <1>1, <1>2, <2>1
  <1>5. r.id \in {Append(lg, r)[i].id : i \in DOMAIN Append(lg, r)}
    BY <1>1, <1>2
  <1>. QED
    BY <1>3, <1>4, <1>5

\* The snapshot stays right when a record is accepted.
LEMMA SnapStep ==
  ASSUME Finding!BoundsAssumption, FindingState, NEW s \in Finding!Sides, NEW r \in FindingRecords
  PROVE  /\ Finding!ObserveOperational(s, r) \in [entries : SUBSET EntryType, complete : BOOLEAN]
         /\ SnapRight(Append(log[s], r), Finding!ObserveOperational(s, r))
  <1> DEFINE lg == log[s]
             sn == snap[s]
             known == {e \in sn.entries : e.id = r.id}
             new == Finding!ObserveOperational(s, r)
             first == [id |-> r.id, behavior |-> r.behavior, count |-> 1]
  <1>1. /\ lg \in Seq(FindingRecords) /\ SnapRight(lg, sn)
        /\ sn \in [entries : SUBSET EntryType, complete : BOOLEAN]
    BY DEF FindingState, FindingTypes
  <1>2. r.id \in Finding!Ids /\ first \in EntryType
    BY DEF Finding!Ids, EntryType
  <1>3. \A id : /\ Cardinality(PlacesOf(lg, id)) \in Nat
                /\ id = r.id => Cardinality(PlacesOf(Append(lg, r), id)) = Cardinality(PlacesOf(lg, id)) + 1
                /\ id # r.id => PlacesOf(Append(lg, r), id) = PlacesOf(lg, id)
    BY <1>1, PlacesGrow
  <1>4. {Append(lg, r)[i].id : i \in DOMAIN Append(lg, r)} = {lg[i].id : i \in DOMAIN lg} \cup {r.id}
    BY <1>1, SeenGrow
  <1>5. new = IF ~sn.complete THEN sn
              ELSE IF known # {}
              THEN [sn EXCEPT !.entries = (@ \ known) \cup {[e EXCEPT !.count = @ + 1] : e \in known}]
              ELSE IF Finding!Cardinality(sn.entries) >= FindingBehaviors
              THEN [sn EXCEPT !.complete = FALSE]
              ELSE [sn EXCEPT !.entries = @ \cup {first}]
    BY DEF Finding!ObserveOperational
  <1> HIDE DEF new
  <1>6. CASE ~sn.complete
    <2>1. new = sn
      BY <1>5, <1>6
    <2>. QED
      BY <1>1, <1>6, <2>1 DEF SnapRight, new
  <1>7. CASE sn.complete /\ known # {}
    <2>1. PICK k \in known : TRUE
      BY <1>7
    <2>2. k \in EntryType /\ k \in sn.entries /\ k.id = r.id
      BY <1>1, <2>1
    <2>3. known = {k}
      BY <1>1, <2>1, <2>2 DEF SnapRight
    <2> DEFINE more == [k EXCEPT !.count = @ + 1]
    <2>4. more \in EntryType /\ more.id = r.id /\ more.count = k.count + 1
      BY <2>2 DEF EntryType
    <2>5. {[e EXCEPT !.count = @ + 1] : e \in known} = {more}
      BY <2>3
    <2>6. new = [sn EXCEPT !.entries = (@ \ {k}) \cup {more}]
      BY <1>5, <1>7, <2>3, <2>5
    <2> HIDE DEF more
    <2>7. /\ new \in [entries : SUBSET EntryType, complete : BOOLEAN]
          /\ new.entries = (sn.entries \ {k}) \cup {more} /\ new.complete = sn.complete
      BY <1>1, <2>4, <2>6
    <2>8. \A e \in sn.entries \ {k} : e.id # r.id
      BY <2>3
    <2>9. \A e \in new.entries, f \in new.entries : e.id = f.id => e = f
      BY <1>1, <2>4, <2>7, <2>8 DEF SnapRight
    <2>10. {e.id : e \in new.entries} = {e.id : e \in sn.entries} \cup {r.id}
      <3>1. ASSUME NEW e \in new.entries PROVE e.id \in {f.id : f \in sn.entries} \cup {r.id}
        BY <2>4, <2>7
      <3>2. ASSUME NEW e \in sn.entries PROVE e.id \in {f.id : f \in new.entries}
        <4>1. CASE e = k
          BY <2>2, <2>4, <2>7, <4>1
        <4>2. CASE e # k
          BY <2>7, <4>2
        <4>. QED
          BY <4>1, <4>2
      <3>3. r.id \in {f.id : f \in new.entries}
        BY <2>4, <2>7
      <3>. QED
        BY <3>1, <3>2, <3>3
    <2>11. ASSUME NEW e \in new.entries PROVE e.count = Cardinality(PlacesOf(Append(lg, r), e.id))
      <3>1. CASE e = more
        <4>1. k.count = Cardinality(PlacesOf(lg, r.id))
          BY <1>1, <1>7, <2>2 DEF SnapRight
        <4>. QED
          BY <1>3, <2>4, <3>1, <4>1
      <3>2. CASE e \in sn.entries \ {k}
        <4>1. e.count = Cardinality(PlacesOf(lg, e.id)) /\ e.id # r.id
          BY <1>1, <1>7, <2>8, <3>2 DEF SnapRight
        <4>. QED
          BY <1>3, <4>1
      <3>. QED
        BY <2>7, <3>1, <3>2
    <2>12. {e.id : e \in new.entries} = {Append(lg, r)[i].id : i \in DOMAIN Append(lg, r)}
      BY <1>1, <1>4, <1>7, <2>10 DEF SnapRight
    <2>. QED
      BY <2>7, <2>9, <2>11, <2>12 DEF SnapRight, new
  <1>8. CASE sn.complete /\ known = {} /\ Finding!Cardinality(sn.entries) >= FindingBehaviors
    <2>1. new = [sn EXCEPT !.complete = FALSE]
      BY <1>5, <1>8
    <2>2. new \in [entries : SUBSET EntryType, complete : BOOLEAN] /\ new.entries = sn.entries /\ ~new.complete
      BY <1>1, <2>1
    <2>. QED
      BY <1>1, <2>2 DEF SnapRight, new
  <1>9. CASE sn.complete /\ known = {} /\ ~(Finding!Cardinality(sn.entries) >= FindingBehaviors)
    <2>1. new = [sn EXCEPT !.entries = @ \cup {first}]
      BY <1>5, <1>9
    <2>2. first.id = r.id /\ first.count = 1
      OBVIOUS
    <2> HIDE DEF first
    <2>3. /\ new \in [entries : SUBSET EntryType, complete : BOOLEAN]
          /\ new.entries = sn.entries \cup {first} /\ new.complete = sn.complete
      BY <1>1, <1>2, <2>1
    <2>4. \A e \in sn.entries : e.id # r.id
      BY <1>9
    <2>5. \A e \in new.entries, f \in new.entries : e.id = f.id => e = f
      BY <1>1, <2>2, <2>3, <2>4 DEF SnapRight
    <2>6. {e.id : e \in new.entries} = {e.id : e \in sn.entries} \cup {r.id}
      BY <2>2, <2>3
    <2>7. PlacesOf(lg, r.id) = {}
      <3>1. r.id \notin {lg[i].id : i \in DOMAIN lg}
        BY <1>1, <1>9, <2>4 DEF SnapRight
      <3>. QED
        BY <3>1 DEF PlacesOf
    <2>8. Cardinality(PlacesOf(lg, r.id)) = 0
      BY <2>7, FS_EmptySet
    <2>9. ASSUME NEW e \in new.entries PROVE e.count = Cardinality(PlacesOf(Append(lg, r), e.id))
      <3>1. CASE e = first
        BY <1>3, <2>2, <2>8, <3>1
      <3>2. CASE e \in sn.entries
        <4>1. e.count = Cardinality(PlacesOf(lg, e.id)) /\ e.id # r.id
          BY <1>1, <1>9, <2>4, <3>2 DEF SnapRight
        <4>. QED
          BY <1>3, <4>1
      <3>. QED
        BY <2>3, <3>1, <3>2
    <2>10. {e.id : e \in new.entries} = {Append(lg, r)[i].id : i \in DOMAIN Append(lg, r)}
      BY <1>1, <1>4, <1>9, <2>6 DEF SnapRight
    <2>. QED
      BY <2>3, <2>5, <2>9, <2>10 DEF SnapRight, new
  <1>. QED
    BY <1>1, <1>6, <1>7, <1>8, <1>9

-----------------------------------------------------------------------------
(* A finding and its answer, as functions of the snapshots, logs and rows.   *)

CanCompare(sd, sn) ==
  /\ \A s \in Finding!Sides : sd[s] = "completed" /\ sn[s].complete
  /\ \A c \in sn["candidate"].entries : \A e \in sn["reference"].entries :
       (c.id = e.id) = (c.behavior = e.behavior)

IdsIn(sn, s) == {e.id : e \in sn[s].entries}
SeenAt(lg, s) == {lg[s][i].id : i \in DOMAIN lg[s]}
AddedAt(lg) == SeenAt(lg, "candidate") \ SeenAt(lg, "reference")

\* The run a finding is about.
AboutSide(sn, f) ==
  IF f.behavior = None THEN "candidate"
  ELSE IF f.behavior \notin IdsIn(sn, "reference") THEN "candidate"
  ELSE IF f.behavior \notin IdsIn(sn, "candidate") THEN "reference" ELSE f.side

Backs(lg, s, f, i) ==
  IF f.behavior # None THEN lg[s][i].id = f.behavior
  ELSE IF f.check = "block_decisions" THEN lg[s][i].mark = "block" ELSE lg[s][i].mark = "critical"

\* What the pages of an answer are cut from.
Behind(route, f, sn, lg, rw) ==
  IF route = "behaviors"
  THEN IF f.behavior # None THEN {f.behavior} ELSE IdsIn(sn, "candidate") \ IdsIn(sn, "reference")
  ELSE {i \in rw[AboutSide(sn, f)] : Backs(lg, AboutSide(sn, f), f, i)}

BackedBy(lg, f, s) ==
  {i \in DOMAIN lg[s] :
     IF f.behavior # None THEN lg[s][i].id = f.behavior
     ELSE CASE f.check = "block_decisions"            -> lg[s][i].mark = "block"
            [] f.check = "critical_risk_observations" -> lg[s][i].mark = "critical"
            [] OTHER                                  -> lg[s][i].id \in AddedAt(lg)}

SideRightAt(lg, f, s) ==
  IF f.behavior = None THEN s = "candidate"
  ELSE f.behavior \in SeenAt(lg, s) /\ f.side \in {None, s}
       /\ (f.side = None => \A t \in Finding!Sides \ {s} : f.behavior \notin SeenAt(lg, t))

\* The answer is right about all the records accepted.
ToldRight(route, f, a, lg, rw) ==
  /\ SideRightAt(lg, f, a.side)
  /\ a.outcome = "resolved" => BackedBy(lg, f, a.side) # {}
  /\ a.outcome = "none_found" => BackedBy(lg, f, a.side) = {}
  /\ a.recorded = IF f.check = "added_behaviors" THEN Finding!Cardinality(AddedAt(lg))
                  ELSE Finding!Cardinality(BackedBy(lg, f, a.side))
  /\ route = "observations" /\ a.exhaustive => BackedBy(lg, f, a.side) \subseteq rw[a.side]

TrueBehind(route, f, s, lg, rw) ==
  CASE route = "observations" -> BackedBy(lg, f, s) \cap rw[s]
    [] route = "behaviors" /\ f.behavior # None -> {f.behavior}
    [] OTHER                  -> AddedAt(lg)

TrueOf(w, lg, rw) ==
  w.answer # None =>
    /\ w.route \in {"behaviors", "observations"} /\ w.answer.outcome \notin {"refused", "aggregate_only"} =>
         /\ ToldRight(w.route, w.finding, w.answer, lg, rw)
         /\ Finding!Ended(w) => w.got = TrueBehind(w.route, w.finding, w.answer.side, lg, rw)
    /\ w.route \in {"list", "history"} =>
         /\ Finding!Ended(w) => w.got = rw[w.side]
         /\ w.answer.outcome = "complete" /\ Finding!Ended(w) => w.got = DOMAIN lg[w.side]

\* The property a step is checked against, in these terms.
LEMMA TrueAfter ==
  ASSUME TrueOf(walk', log', rows') PROVE Finding!AnswerIsTrue(walk)'
  BY DEF TrueOf, ToldRight, TrueBehind, SideRightAt, BackedBy, AddedAt, SeenAt, Finding!AnswerIsTrue,
         Finding!SupportingRecords, Finding!Supports, Finding!SideIsRight, Finding!TrulyAdded, Finding!SeenIn,
         Finding!Ended, Finding!HistoryPages

\* When two runs compare, in these terms.
LEMMA ComparableIs == Finding!Comparable <=> CanCompare(sides, snap)
  BY DEF Finding!Comparable, CanCompare, Finding!assertConsistentIdentity

\* The identities of a snapshot, in these terms.
LEMMA IdsOfIs == \A s : Finding!IdsOf(s) = IdsIn(snap, s)
  BY DEF Finding!IdsOf, IdsIn

\* Two comparable runs: the snapshots name what the logs hold.
LEMMA IdsSeen ==
  ASSUME FindingState, CanCompare(sides, snap), NEW s \in Finding!Sides
  PROVE  IdsIn(snap, s) = SeenAt(log, s)
  BY DEF FindingState, CanCompare, IdsIn, SeenAt, SnapRight

\* and how often.
LEMMA CountsSeen ==
  ASSUME FindingState, CanCompare(sides, snap), NEW s \in Finding!Sides, NEW b, b \in IdsIn(snap, s)
  PROVE  Finding!CountIn(s, b) = Cardinality(PlacesOf(log[s], b))
  <1> DEFINE E == {e \in snap[s].entries : e.id = b}
  <1>1. PICK k \in E : TRUE
    BY DEF IdsIn
  <1>2. Finding!CountIn(s, b) = (CHOOSE e \in E : TRUE).count
    BY <1>1 DEF Finding!CountIn
  <1> DEFINE c == CHOOSE e \in E : TRUE
  <1>3. c \in E
    BY <1>1
  <1> HIDE DEF c
  <1>4. c.count = Cardinality(PlacesOf(log[s], c.id)) /\ c.id = b
    BY <1>3 DEF FindingState, CanCompare, SnapRight
  <1>. QED
    BY <1>2, <1>4 DEF c

\* The identities seen are positive numbers.
LEMMA SeenAreIds ==
  ASSUME Finding!BoundsAssumption, FindingState, NEW s \in Finding!Sides
  PROVE  IdsIn(snap, s) \subseteq Nat \ {0} /\ IdsIn(snap, s) \subseteq Finding!Ids
  <1>1. \A e \in snap[s].entries : e \in EntryType
    BY DEF FindingState, FindingTypes
  <1>2. \A e \in snap[s].entries : e.id \in Finding!Ids
    BY <1>1 DEF EntryType
  <1>. QED
    BY <1>2 DEF IdsIn, Finding!BoundsAssumption

\* A finding names a check or a behavior.
LEMMA FindingIs ==
  ASSUME Finding!BoundsAssumption, NEW f \in Finding!Findings
  PROVE  /\ f.behavior # None => f.check = None /\ f.behavior \in Finding!Ids /\ f.side \in Finding!Sides \cup {None}
         /\ f.behavior = None => f.check \in Finding!Checks /\ f.check # None
  BY DEF Finding!Findings

\* The side found for a behavior is the side it is in.
LEMMA SideFound ==
  ASSUME Finding!BoundsAssumption, FindingState, CanCompare(sides, snap), NEW f \in Finding!Findings,
         f.behavior # None, f.behavior \in IdsIn(snap, "candidate") \cup IdsIn(snap, "reference"),
         NEW sd, sd = Finding!sideForDelta(f.behavior, f.side), sd # None
  PROVE  /\ sd \in Finding!Sides /\ sd = AboutSide(snap, f)
         /\ SideRightAt(log, f, sd) /\ f.behavior \in IdsIn(snap, sd)
  <1> DEFINE b == f.behavior
             inR == b \in IdsIn(snap, "reference")
             inC == b \in IdsIn(snap, "candidate")
  <1>1. f.side \in Finding!Sides \cup {None} /\ Finding!Sides = {"reference", "candidate"}
        /\ None \notin Finding!Sides
    BY FindingIs DEF Finding!Sides, Finding!BoundsAssumption
  <1>2. IdsIn(snap, "reference") = SeenAt(log, "reference") /\ IdsIn(snap, "candidate") = SeenAt(log, "candidate")
    BY <1>1, IdsSeen
  <1>3. Finding!Presence(b) = IF ~inR THEN "added" ELSE IF ~inC THEN "removed" ELSE "shared"
    BY IdsOfIs DEF Finding!Presence
  <1>4. CASE ~inR
    <2>1. inC /\ sd = "candidate" /\ f.side \in {None, "candidate"}
      BY <1>3, <1>4 DEF Finding!sideForDelta
    <2>. QED
      BY <1>1, <1>2, <1>4, <2>1 DEF SideRightAt, AboutSide
  <1>5. CASE inR /\ ~inC
    <2>1. sd = "reference" /\ f.side \in {None, "reference"}
      BY <1>3, <1>5 DEF Finding!sideForDelta
    <2>. QED
      BY <1>1, <1>2, <1>5, <2>1 DEF SideRightAt, AboutSide
  <1>6. CASE inR /\ inC
    <2>1. sd = f.side /\ f.side \in Finding!Sides
      BY <1>1, <1>3, <1>6 DEF Finding!sideForDelta
    <2>. QED
      BY <1>1, <1>2, <1>6, <2>1 DEF SideRightAt, AboutSide
  <1>. QED
    BY <1>4, <1>5, <1>6

\* What is told when the history calls itself complete.
LEMMA CompleteHistory ==
  ASSUME Finding!BoundsAssumption, FindingState, NEW s \in Finding!Sides, Finding!NewObservationHistory(s) = "complete"
  PROVE  rows[s] = DOMAIN log[s]
  <1>1. log[s] \in Seq(FindingRecords) /\ hist[s] \in {None} \cup HistoryType /\ RetainedRight(log[s], rows[s], hist[s])
    BY DEF FindingState, FindingTypes
  <1>2. Len(log[s]) \in Nat /\ DOMAIN log[s] = 1..Len(log[s])
    BY <1>1
  <1>3. CASE hist[s] = None
    <2>1. Len(log[s]) = 0
      BY <1>3 DEF Finding!NewObservationHistory
    <2>. QED
      BY <1>1, <1>2, <1>3, <2>1 DEF RetainedRight
  <1>4. CASE hist[s] # None
    <2>1. hist[s].complete
      BY <1>1, <1>4 DEF Finding!NewObservationHistory
    <2>. QED
      BY <1>1, <1>2, <1>4, <2>1 DEF RetainedRight
  <1>. QED
    BY <1>3, <1>4

-----------------------------------------------------------------------------
(* Every answer is right, whatever the route and the finding.                *)

\* An answer that is one: what it says, and what its pages are cut from.
Answered(route, f, a, t, after, n) ==
  /\ a.outcome \notin {"refused", "aggregate_only"} /\ a.side \in Finding!Sides
  /\ ToldRight(route, f, a, log, rows)
  /\ t \subseteq Nat \ {0} /\ t = TrueBehind(route, f, a.side, log, rows)
  /\ a.page = Finding!PageOf(t, after, n)

\* An answer that names nothing.
Nothing(a) == a.page = {} /\ a.outcome \in {"refused", "aggregate_only"}

\* A refusal names nothing.
LEMMA RefusedIs == Nothing(Finding!Refused)
  BY DEF Nothing, Finding!Refused

\* So does an aggregate.
LEMMA AggregateIs == \A p : Nothing(Finding!AggregateOnly(p))
  BY DEF Nothing, Finding!AggregateOnly

\* The retained positions are positive numbers of the log.
LEMMA RowsArePlaces ==
  ASSUME FindingState, NEW s \in Finding!Sides
  PROVE  /\ rows[s] \subseteq Nat \ {0} /\ rows[s] \subseteq DOMAIN log[s]
         /\ IsFiniteSet(rows[s]) /\ IsFiniteSet(DOMAIN log[s])
  <1>1. log[s] \in Seq(FindingRecords) /\ RetainedRight(log[s], rows[s], hist[s])
    BY DEF FindingState, FindingTypes
  <1>2. Len(log[s]) \in Nat /\ DOMAIN log[s] = 1..Len(log[s]) /\ rows[s] \subseteq 1..Len(log[s])
    BY <1>1 DEF RetainedRight
  <1>3. IsFiniteSet(1..Len(log[s]))
    BY <1>2, FS_Interval
  <1>4. IsFiniteSet(rows[s])
    BY <1>2, <1>3, FS_Subset
  <1>. QED
    BY <1>2, <1>3, <1>4

\* A behavior's answer about behaviors.
LEMMA BehaviorByBehavior ==
  ASSUME Finding!BoundsAssumption, FindingState, CanCompare(sides, snap), NEW f \in Finding!Findings,
         f.behavior # None, f.behavior \in IdsIn(snap, "candidate") \cup IdsIn(snap, "reference"),
         NEW sd, sd = Finding!sideForDelta(f.behavior, f.side), sd # None, NEW after, NEW n
  PROVE  Answered("behaviors", f, Finding!BehaviorPage(sd, Finding!CountIn(sd, f.behavior), {f.behavior}, after, n),
                  Behind("behaviors", f, snap, log, rows), after, n)
  <1> DEFINE a == Finding!BehaviorPage(sd, Finding!CountIn(sd, f.behavior), {f.behavior}, after, n)
             t == Behind("behaviors", f, snap, log, rows)
  <1>1. /\ sd \in Finding!Sides /\ sd = AboutSide(snap, f)
        /\ SideRightAt(log, f, sd) /\ f.behavior \in IdsIn(snap, sd)
    BY SideFound
  <1>2. f.check = None /\ f.behavior \in Finding!Ids /\ f.check # "added_behaviors" /\ f.behavior \in Nat \ {0}
    BY FindingIs DEF Finding!BoundsAssumption, Finding!Checks
  <1>3. BackedBy(log, f, sd) = PlacesOf(log[sd], f.behavior)
    BY DEF BackedBy, PlacesOf
  <1>4. f.behavior \in SeenAt(log, sd)
    BY <1>1, IdsSeen
  <1>5. BackedBy(log, f, sd) # {}
    BY <1>3, <1>4 DEF SeenAt, PlacesOf
  <1>6. Finding!CountIn(sd, f.behavior) = Finding!Cardinality(BackedBy(log, f, sd))
    BY <1>1, <1>3, CountsSeen, FindingCardinality
  <1>7. /\ a.outcome = "resolved" /\ a.side = sd /\ a.recorded = Finding!CountIn(sd, f.behavior)
        /\ a.page = Finding!PageOf({f.behavior}, after, n)
    BY DEF Finding!BehaviorPage
  <1>8. t = {f.behavior} /\ TrueBehind("behaviors", f, sd, log, rows) = {f.behavior}
    BY DEF Behind, TrueBehind
  <1> HIDE DEF a, t
  <1>9. ToldRight("behaviors", f, a, log, rows)
    BY <1>1, <1>2, <1>5, <1>6, <1>7 DEF ToldRight
  <1>. QED
    BY <1>1, <1>2, <1>7, <1>8, <1>9 DEF Answered, a, t

\* The answer about the behaviors added.
LEMMA BehaviorsByCheck ==
  ASSUME Finding!BoundsAssumption, FindingState, CanCompare(sides, snap), NEW f \in Finding!Findings,
         f.behavior = None, f.check = "added_behaviors", NEW after, NEW n
  PROVE  Answered("behaviors", f,
                  Finding!BehaviorPage("candidate", Finding!Cardinality(Finding!Added), Finding!Added, after, n),
                  Behind("behaviors", f, snap, log, rows), after, n)
  <1> DEFINE a == Finding!BehaviorPage("candidate", Finding!Cardinality(Finding!Added), Finding!Added, after, n)
             t == Behind("behaviors", f, snap, log, rows)
             A == AddedAt(log)
  <1>1. "candidate" \in Finding!Sides /\ "reference" \in Finding!Sides
    BY DEF Finding!Sides
  <1>2. Finding!Added = A
    BY <1>1, IdsSeen, IdsOfIs DEF Finding!Added, AddedAt
  <1>3. A \subseteq Nat \ {0}
    <2>1. SeenAt(log, "candidate") \subseteq Nat \ {0}
      BY <1>1, IdsSeen, SeenAreIds
    <2>. QED
      BY <2>1 DEF AddedAt
  <1>4. t = A
    BY <1>1, IdsSeen DEF Behind, AddedAt
  <1>5. TrueBehind("behaviors", f, "candidate", log, rows) = A
    BY DEF TrueBehind
  <1>6. BackedBy(log, f, "candidate") = {i \in DOMAIN log["candidate"] : log["candidate"][i].id \in A}
    BY DEF BackedBy
  <1>7. (A = {}) <=> (BackedBy(log, f, "candidate") = {})
    <2>1. A \subseteq {log["candidate"][i].id : i \in DOMAIN log["candidate"]}
      BY DEF AddedAt, SeenAt
    <2> HIDE DEF A
    <2>. QED
      BY <1>6, <2>1
  <1> HIDE DEF A
  <1>8. /\ a.outcome = (IF A = {} THEN "none_found" ELSE "resolved") /\ a.side = "candidate"
        /\ a.recorded = Finding!Cardinality(A) /\ a.page = Finding!PageOf(A, after, n)
    BY <1>2 DEF Finding!BehaviorPage
  <1> HIDE DEF a, t
  <1>9. SideRightAt(log, f, "candidate")
    BY DEF SideRightAt
  <1>10. ToldRight("behaviors", f, a, log, rows)
    BY <1>7, <1>8, <1>9 DEF ToldRight, A
  <1>11. a.outcome \notin {"refused", "aggregate_only"}
    BY <1>8
  <1>. QED
    BY <1>1, <1>3, <1>4, <1>5, <1>8, <1>10, <1>11 DEF Answered, a, t

\* An answer about observations, from a filter that finds what backs the
\* finding.
LEMMA ObservationsAnswer ==
  ASSUME Finding!BoundsAssumption, FindingState, NEW f \in Finding!Findings, NEW sd \in Finding!Sides,
         sd = AboutSide(snap, f), SideRightAt(log, f, sd), f.check # "added_behaviors",
         NEW flt, Finding!Matching(sd, flt) = BackedBy(log, f, sd) \cap rows[sd],
         Behind("observations", f, snap, log, rows) = BackedBy(log, f, sd) \cap rows[sd],
         NEW rec, rec = Finding!Cardinality(BackedBy(log, f, sd)), NEW after, NEW n
  PROVE  Answered("observations", f, Finding!ObservationAnswer(sd, rec, flt, after, n),
                  Behind("observations", f, snap, log, rows), after, n)
  <1> DEFINE a == Finding!ObservationAnswer(sd, rec, flt, after, n)
             M == Finding!Matching(sd, flt)
             h == Finding!NewObservationHistory(sd)
             B == BackedBy(log, f, sd)
  <1>1. /\ a.outcome = Finding!observationStatus(M # {}, h) /\ a.side = sd /\ a.recorded = rec
        /\ a.exhaustive = (h = "complete") /\ a.page = Finding!PageOf(M, after, n)
    BY DEF Finding!ObservationAnswer, Finding!runObservationPage
  <1>2. M = B \cap rows[sd]
    OBVIOUS
  <1>3. M \subseteq Nat \ {0}
    BY RowsArePlaces
  <1>4. h = "complete" => B \subseteq rows[sd]
    BY CompleteHistory DEF BackedBy
  <1>5. TrueBehind("observations", f, sd, log, rows) = M
    BY <1>2 DEF TrueBehind
  <1>6. Behind("observations", f, snap, log, rows) = M
    BY <1>2
  <1> HIDE DEF M, h, B
  <1>7. /\ M # {} => Finding!observationStatus(M # {}, h) = "resolved"
        /\ M = {} /\ h = "complete" => Finding!observationStatus(M # {}, h) = "none_found"
        /\ M = {} /\ h # "complete" => Finding!observationStatus(M # {}, h) = "indeterminate"
    BY DEF Finding!observationStatus
  <1> HIDE DEF a
  <1>8. a.outcome = "resolved" => M # {}
    BY <1>1, <1>7
  <1>9. a.outcome = "none_found" => M = {} /\ h = "complete"
    BY <1>1, <1>7
  <1>10. a.outcome \notin {"refused", "aggregate_only"}
    BY <1>1, <1>7
  <1>11. a.exhaustive => h = "complete"
    BY <1>1
  <1>12. /\ a.outcome = "resolved" => B # {}
         /\ a.outcome = "none_found" => B = {}
         /\ a.exhaustive => B \subseteq rows[sd]
    BY <1>2, <1>4, <1>8, <1>9, <1>11
  <1>13. ToldRight("observations", f, a, log, rows)
    BY <1>1, <1>12 DEF ToldRight, B
  <1>. QED
    BY <1>1, <1>3, <1>5, <1>6, <1>10, <1>13 DEF Answered, a

\* A behavior's answer about observations.
LEMMA ObservationsByBehavior ==
  ASSUME Finding!BoundsAssumption, FindingState, CanCompare(sides, snap), NEW f \in Finding!Findings,
         f.behavior # None, f.behavior \in IdsIn(snap, "candidate") \cup IdsIn(snap, "reference"),
         NEW sd, sd = Finding!sideForDelta(f.behavior, f.side), sd # None, NEW after, NEW n
  PROVE  Answered("observations", f,
                  Finding!ObservationAnswer(sd, Finding!CountIn(sd, f.behavior), [by |-> "id", id |-> f.behavior], after, n),
                  Behind("observations", f, snap, log, rows), after, n)
  <1> DEFINE flt == [by |-> "id", id |-> f.behavior]
             B == BackedBy(log, f, sd)
  <1>1. /\ sd \in Finding!Sides /\ sd = AboutSide(snap, f)
        /\ SideRightAt(log, f, sd) /\ f.behavior \in IdsIn(snap, sd)
    BY SideFound
  <1>2. f.check = None /\ f.behavior \in Finding!Ids /\ f.check # "added_behaviors"
    BY FindingIs DEF Finding!BoundsAssumption, Finding!Checks
  <1>3. B = PlacesOf(log[sd], f.behavior) /\ rows[sd] \subseteq DOMAIN log[sd]
    BY <1>1, RowsArePlaces DEF BackedBy, PlacesOf
  <1>4. Finding!CountIn(sd, f.behavior) = Finding!Cardinality(B)
    BY <1>1, <1>3, CountsSeen, FindingCardinality
  <1>5. flt # None /\ flt.by = "id" /\ flt.id = f.behavior
    BY <1>2 DEF Finding!BoundsAssumption
  <1> HIDE DEF flt
  <1>6. Finding!Matching(sd, flt) = {i \in rows[sd] : log[sd][i].id = f.behavior}
    BY <1>5 DEF Finding!Matching
  <1>7. Finding!Matching(sd, flt) = B \cap rows[sd]
    BY <1>3, <1>6 DEF PlacesOf
  <1>8. Behind("observations", f, snap, log, rows) = {i \in rows[sd] : log[sd][i].id = f.behavior}
    BY <1>1 DEF Behind, Backs
  <1>9. Behind("observations", f, snap, log, rows) = B \cap rows[sd]
    BY <1>6, <1>7, <1>8
  <1>. QED
    BY <1>1, <1>2, <1>4, <1>7, <1>9, ObservationsAnswer DEF flt

\* The answer about the observations a check counts.
LEMMA ObservationsByCheck ==
  ASSUME Finding!BoundsAssumption, FindingState, NEW f \in Finding!Findings, f.behavior = None,
         NEW mark, \/ f.check = "block_decisions" /\ mark = "block"
                   \/ f.check = "critical_risk_observations" /\ mark = "critical",
         NEW after, NEW n
  PROVE  /\ Finding!Marked(mark).kind = "rows"
         /\ Answered("observations", f,
                  Finding!ObservationAnswer(Finding!Marked(mark).side, Finding!Marked(mark).recorded,
                                            Finding!Marked(mark).filter, after, n),
                  Behind("observations", f, snap, log, rows), after, n)
  <1> DEFINE flt == [by |-> "mark", mark |-> mark]
             B == BackedBy(log, f, "candidate")
             p == Finding!Marked(mark)
  <1>1. "candidate" \in Finding!Sides /\ AboutSide(snap, f) = "candidate" /\ SideRightAt(log, f, "candidate")
    BY DEF Finding!Sides, AboutSide, SideRightAt
  <1>2. B = {i \in DOMAIN log["candidate"] : log["candidate"][i].mark = mark}
    BY DEF BackedBy
  <1>3. /\ p.kind = "rows" /\ p.side = "candidate" /\ p.filter = flt
        /\ p.recorded = Finding!Cardinality({i \in DOMAIN log["candidate"] : log["candidate"][i].mark = mark})
    BY DEF Finding!Marked, Finding!Count
  <1>4. flt # None /\ flt.by = "mark" /\ flt.mark = mark
    BY DEF Finding!BoundsAssumption
  <1> HIDE DEF flt, p
  <1>5. Finding!Matching("candidate", flt) = {i \in rows["candidate"] : log["candidate"][i].mark = mark}
    BY <1>4 DEF Finding!Matching
  <1>6. rows["candidate"] \subseteq DOMAIN log["candidate"]
    BY <1>1, RowsArePlaces
  <1>7. Finding!Matching("candidate", flt) = B \cap rows["candidate"]
    BY <1>2, <1>5, <1>6
  <1>8. Behind("observations", f, snap, log, rows) = {i \in rows["candidate"] : log["candidate"][i].mark = mark}
    BY <1>1 DEF Behind, Backs
  <1>9. Behind("observations", f, snap, log, rows) = B \cap rows["candidate"]
    BY <1>5, <1>7, <1>8
  <1>10. f.check # "added_behaviors" /\ p.recorded = Finding!Cardinality(B)
    BY <1>2, <1>3
  <1>11. Answered("observations", f, Finding!ObservationAnswer("candidate", p.recorded, flt, after, n),
                  Behind("observations", f, snap, log, rows), after, n)
    BY <1>1, <1>7, <1>9, <1>10, ObservationsAnswer
  <1>. QED
    BY <1>3, <1>11 DEF p

\* The answer to a finding by behaviors names nothing or is right.
LEMMA BehaviorsResolved ==
  ASSUME Finding!BoundsAssumption, FindingState, NEW f \in Finding!Findings, NEW after, NEW n
  PROVE  \/ Nothing(Finding!ResolveFindingBehaviors(f, after, n))
         \/ /\ CanCompare(sides, snap)
            /\ Answered("behaviors", f, Finding!ResolveFindingBehaviors(f, after, n),
                        Behind("behaviors", f, snap, log, rows), after, n)
  <1> DEFINE a == Finding!ResolveFindingBehaviors(f, after, n)
             sd == Finding!sideForDelta(f.behavior, f.side)
             p == Finding!planForCheck(f.check)
  <1>1. CASE ~CanCompare(sides, snap)
    <2>1. a = Finding!Refused
      BY <1>1, ComparableIs DEF Finding!ResolveFindingBehaviors
    <2>. QED
      BY <2>1, RefusedIs
  <1>2. CASE CanCompare(sides, snap) /\ f.behavior # None
    <2>1. CASE f.behavior \notin IdsIn(snap, "candidate") \cup IdsIn(snap, "reference") \/ sd = None
      <3>1. a = Finding!Refused
        BY <1>2, <2>1, ComparableIs, IdsOfIs DEF Finding!ResolveFindingBehaviors
      <3>. QED
        BY <3>1, RefusedIs
    <2>2. CASE f.behavior \in IdsIn(snap, "candidate") \cup IdsIn(snap, "reference") /\ sd # None
      <3>1. a = Finding!BehaviorPage(sd, Finding!CountIn(sd, f.behavior), {f.behavior}, after, n)
        BY <1>2, <2>2, ComparableIs, IdsOfIs DEF Finding!ResolveFindingBehaviors
      <3>. QED
        BY <1>2, <2>2, <3>1, BehaviorByBehavior
    <2>. QED
      BY <2>1, <2>2
  <1>3. CASE CanCompare(sides, snap) /\ f.behavior = None
    <2>1. a = CASE p.kind = "aggregate_only" -> Finding!AggregateOnly(p)
                [] p.kind = "behaviors"      -> Finding!BehaviorPage(p.side, p.recorded, Finding!Added, after, n)
                [] OTHER                     -> Finding!Refused
      BY <1>3, ComparableIs DEF Finding!ResolveFindingBehaviors
    <2>2. f.check \in Finding!Checks
      BY <1>3, FindingIs
    <2>3. CASE f.check = "added_behaviors"
      <3>1. p = [kind |-> "behaviors", side |-> "candidate", recorded |-> Finding!Cardinality(Finding!Added)]
        BY <2>3 DEF Finding!planForCheck
      <3>2. a = Finding!BehaviorPage("candidate", Finding!Cardinality(Finding!Added), Finding!Added, after, n)
        BY <2>1, <3>1
      <3>. QED
        BY <1>3, <2>3, <3>2, BehaviorsByCheck
    <2>4. CASE f.check # "added_behaviors"
      <3>1. p.kind \in {"rows", "aggregate_only", "refused"}
        BY <2>2, <2>4 DEF Finding!planForCheck, Finding!Checks, Finding!Marked
      <3>2. a = Finding!AggregateOnly(p) \/ a = Finding!Refused
        BY <2>1, <3>1
      <3>. QED
        BY <3>2, RefusedIs, AggregateIs
    <2>. QED
      BY <2>3, <2>4
  <1>. QED
    BY <1>1, <1>2, <1>3

\* So is the answer by observations.
LEMMA ObservationsResolved ==
  ASSUME Finding!BoundsAssumption, FindingState, NEW f \in Finding!Findings, NEW after, NEW n
  PROVE  \/ Nothing(Finding!ResolveFindingObservations(f, after, n))
         \/ /\ CanCompare(sides, snap)
            /\ Answered("observations", f, Finding!ResolveFindingObservations(f, after, n),
                        Behind("observations", f, snap, log, rows), after, n)
  <1> DEFINE a == Finding!ResolveFindingObservations(f, after, n)
             sd == Finding!sideForDelta(f.behavior, f.side)
             p == Finding!planForCheck(f.check)
  <1>1. CASE ~CanCompare(sides, snap)
    <2>1. a = Finding!Refused
      BY <1>1, ComparableIs DEF Finding!ResolveFindingObservations
    <2>. QED
      BY <2>1, RefusedIs
  <1>2. CASE CanCompare(sides, snap) /\ f.behavior # None
    <2>1. CASE f.behavior \notin IdsIn(snap, "candidate") \cup IdsIn(snap, "reference") \/ sd = None
      <3>1. a = Finding!Refused
        BY <1>2, <2>1, ComparableIs, IdsOfIs DEF Finding!ResolveFindingObservations
      <3>. QED
        BY <3>1, RefusedIs
    <2>2. CASE f.behavior \in IdsIn(snap, "candidate") \cup IdsIn(snap, "reference") /\ sd # None
      <3>1. a = Finding!ObservationAnswer(sd, Finding!CountIn(sd, f.behavior), [by |-> "id", id |-> f.behavior], after, n)
        BY <1>2, <2>2, ComparableIs, IdsOfIs DEF Finding!ResolveFindingObservations
      <3>. QED
        BY <1>2, <2>2, <3>1, ObservationsByBehavior
    <2>. QED
      BY <2>1, <2>2
  <1>3. CASE CanCompare(sides, snap) /\ f.behavior = None
    <2>1. a = CASE p.kind = "aggregate_only" -> Finding!AggregateOnly(p)
                [] p.kind = "rows" -> Finding!ObservationAnswer(p.side, p.recorded, p.filter, after, n)
                [] OTHER           -> Finding!Refused
      BY <1>3, ComparableIs DEF Finding!ResolveFindingObservations
    <2>2. f.check \in Finding!Checks
      BY <1>3, FindingIs
    <2>3. ASSUME NEW mark, \/ f.check = "block_decisions" /\ mark = "block"
                           \/ f.check = "critical_risk_observations" /\ mark = "critical"
          PROVE  CanCompare(sides, snap) /\ Answered("observations", f, a, Behind("observations", f, snap, log, rows), after, n)
      <3>1. p = Finding!Marked(mark)
        BY <2>3 DEF Finding!planForCheck
      <3>2. p.kind = "rows" /\ Answered("observations", f, Finding!ObservationAnswer(p.side, p.recorded, p.filter, after, n),
                                        Behind("observations", f, snap, log, rows), after, n)
        BY <1>3, <2>3, <3>1, ObservationsByCheck
      <3>3. a = Finding!ObservationAnswer(p.side, p.recorded, p.filter, after, n)
        BY <2>1, <3>2
      <3>. QED
        BY <1>3, <3>2, <3>3
    <2>4. CASE f.check \in {"block_decisions", "critical_risk_observations"}
      BY <2>3, <2>4
    <2>5. CASE f.check \notin {"block_decisions", "critical_risk_observations"}
      <3>1. p.kind \in {"behaviors", "aggregate_only", "refused"}
        BY <2>2, <2>5 DEF Finding!planForCheck, Finding!Checks
      <3>2. a = Finding!AggregateOnly(p) \/ a = Finding!Refused
        BY <2>1, <3>1
      <3>. QED
        BY <3>2, RefusedIs, AggregateIs
    <2>. QED
      BY <2>4, <2>5
  <1>. QED
    BY <1>1, <1>2, <1>3

-----------------------------------------------------------------------------
(* The reader's walk: what has been read so far is a beginning of what there *)
(* is to read, and that does not change under the reader.                    *)

WalkFields == {"route", "finding", "side", "limit", "after", "pages", "got", "answer"}

\* What has been read of S up to the last number.
ReadOf(S, after) == {i \in S : i <= after}

FindingWalk(w, sd, sn, lg, rw) ==
  /\ w.route \in {"behaviors", "observations"} /\ w.finding \in Finding!Findings
  /\ \/ w.got = {} /\ w.after = 0
     \/ CanCompare(sd, sn) /\ w.got = ReadOf(Behind(w.route, w.finding, sn, lg, rw), w.after)

ListWalk(w, sd, sn, rw) ==
  /\ w.route \in {"list", "history"} /\ w.side \in Finding!Sides
  /\ w.after = 0 \/ w.after \in rw[w.side]
  /\ w.got = ReadOf(rw[w.side], w.after)
  /\ w.route = "history" =>
       /\ CanCompare(sd, sn) /\ w.limit = FindingPage
       /\ Cardinality(w.got) >= w.pages * FindingPage \/ w.got = rw[w.side]

WalkRight(w, sd, sn, lg, rw) ==
  /\ DOMAIN w = WalkFields
  /\ w.limit \in Nat \ {0} /\ w.after \in Nat /\ w.pages \in Nat
  /\ FindingWalk(w, sd, sn, lg, rw) \/ ListWalk(w, sd, sn, rw)

FindingInv ==
  /\ FindingState
  /\ walk # None => WalkRight(walk, sides, snap, log, rows)

\* More pages than the retained rows fill.
LEMMA PagesSuffice ==
  ASSUME NEW R \in Nat, NEW L \in Nat \ {0}
  PROVE  /\ R \div L + 1 \in Nat
         /\ (R \div L + 1) * L > R
  OBVIOUS

\* One page more.
LEMMA OnePageMore ==
  ASSUME NEW p \in Nat, NEW L \in Nat
  PROVE  (p + 1) * L = p * L + L /\ p * L \in Nat
  OBVIOUS

\* A page on a finding's walk.
LEMMA FindingPages ==
  ASSUME Finding!BoundsAssumption, FindingState, NEW w, DOMAIN w = WalkFields,
         w.limit \in Nat \ {0}, w.after \in Nat, w.pages \in Nat, FindingWalk(w, sides, snap, log, rows),
         NEW a, \/ Nothing(a)
                \/ /\ CanCompare(sides, snap)
                   /\ Answered(w.route, w.finding, a, Behind(w.route, w.finding, snap, log, rows), w.after, w.limit),
         NEW v, DOMAIN v = WalkFields, v.answer = a, v.pages \in Nat, v.got = w.got \cup a.page,
         v.after = Finding!Top(a.page, w.after),
         v.route = w.route, v.finding = w.finding, v.limit = w.limit
  PROVE  WalkRight(v, sides, snap, log, rows) /\ TrueOf(v, log, rows)
  <1> DEFINE T == Behind(w.route, w.finding, snap, log, rows)
  <1>1. v.route \in {"behaviors", "observations"} /\ v.finding \in Finding!Findings
    BY DEF FindingWalk
  <1>2. CASE Nothing(a)
    <2>1. a.page = {} /\ a.outcome \in {"refused", "aggregate_only"}
      BY <1>2 DEF Nothing
    <2>2. v.got = w.got /\ v.after = w.after
      BY <2>1 DEF Finding!Top
    <2>3. FindingWalk(v, sides, snap, log, rows)
      BY <2>2 DEF FindingWalk
    <2>4. WalkRight(v, sides, snap, log, rows)
      BY <2>2, <2>3 DEF WalkRight
    <2>. QED
      BY <1>1, <2>1, <2>4 DEF TrueOf
  <1>3. CASE /\ CanCompare(sides, snap)
             /\ Answered(w.route, w.finding, a, T, w.after, w.limit)
    <2>1. T \subseteq Nat \ {0} /\ T = TrueBehind(w.route, w.finding, a.side, log, rows)
          /\ a.page = Finding!PageOf(T, w.after, w.limit) /\ ToldRight(w.route, w.finding, a, log, rows)
      BY <1>3 DEF Answered
    <2> HIDE DEF T
    <2>2. T \subseteq Nat
      BY <2>1
    <2>3. w.got = ReadOf(T, w.after)
      <3>1. CASE w.got = {} /\ w.after = 0
        <4>1. \A i \in T : i \in Nat /\ i # 0
          BY <2>1
        <4>. QED
          BY <3>1, <4>1 DEF ReadOf
      <3>2. CASE w.got = ReadOf(T, w.after)
        BY <3>2
      <3>. QED
        BY <3>1, <3>2 DEF FindingWalk, T
    <2>4. /\ {i \in T : i <= w.after} \cup a.page = {i \in T : i <= v.after}
          /\ v.after \in Nat
      BY <2>1, <2>2, PageReads
    <2>5. v.got = ReadOf(T, v.after)
      BY <2>3, <2>4 DEF ReadOf
    <2>6. FindingWalk(v, sides, snap, log, rows)
      BY <1>1, <1>3, <2>5 DEF FindingWalk, T
    <2>7. WalkRight(v, sides, snap, log, rows)
      BY <2>4, <2>6 DEF WalkRight
    <2>8. ASSUME Finding!Ended(v) PROVE v.got = T
      <3>1. a.page = {}
        BY <1>1, <2>8 DEF Finding!Ended
      <3>2. {i \in T : i <= w.after} = T
        BY <2>1, <2>2, <3>1, PageEmpty
      <3>. QED
        BY <2>3, <3>1, <3>2 DEF ReadOf
    <2>9. TrueOf(v, log, rows)
      BY <1>1, <2>1, <2>8 DEF TrueOf
    <2>. QED
      BY <2>7, <2>9
  <1>. QED
    BY <1>2, <1>3

\* A page on a walk over a run's retained rows.
LEMMA ListPages ==
  ASSUME Finding!BoundsAssumption, FindingState, NEW w, DOMAIN w = WalkFields,
         w.limit \in Nat \ {0}, w.after \in Nat, w.pages \in Nat, ListWalk(w, sides, snap, rows),
         NEW a, a = Finding!ListAnswer(w.side, w.after, w.limit),
         NEW v, DOMAIN v = WalkFields, v.answer = a,
         v.pages = (IF w.route = "history" THEN w.pages + 1 ELSE 1), v.got = w.got \cup a.page,
         v.after = Finding!Top(a.page, w.after),
         v.route = w.route, v.side = w.side, v.limit = w.limit
  PROVE  WalkRight(v, sides, snap, log, rows) /\ TrueOf(v, log, rows)
  <1> DEFINE S == rows[w.side]
             P == Finding!PageOf(S, w.after, w.limit)
  <1>1. w.side \in Finding!Sides /\ w.route \in {"list", "history"} /\ v.pages \in Nat
    BY DEF ListWalk
  <1>2. S \subseteq Nat \ {0} /\ S \subseteq DOMAIN log[w.side] /\ IsFiniteSet(S) /\ S \subseteq Nat
    BY <1>1, RowsArePlaces
  <1>3. Finding!Matching(w.side, None) = S
    BY DEF Finding!Matching
  <1>4. a.outcome = Finding!NewObservationHistory(w.side) /\ a.page = P
    BY <1>3 DEF Finding!ListAnswer, Finding!runObservationPage
  <1>5. w.got = ReadOf(S, w.after)
    BY DEF ListWalk
  <1> HIDE DEF S, P
  <1>6. /\ {i \in S : i <= w.after} \cup P = {i \in S : i <= v.after}
        /\ v.after \in Nat
        /\ v.after = w.after \/ v.after \in S
    BY <1>2, <1>4, PageReads DEF P
  <1>7. v.got = ReadOf(S, v.after)
    BY <1>4, <1>5, <1>6 DEF ReadOf
  <1>8. v.after = 0 \/ v.after \in S
    BY <1>6 DEF ListWalk, S
  <1>9. IsFiniteSet(P) /\ Cardinality(P) \in Nat /\ (Cardinality(P) >= w.limit \/ P = {i \in S : i > w.after})
    BY <1>2, PageFull DEF P
  <1>10. v.got \subseteq S /\ IsFiniteSet(v.got) /\ Cardinality(v.got) \in Nat /\ P \subseteq S
    <2>1. v.got \subseteq S /\ P \subseteq v.got
      BY <1>4, <1>7 DEF ReadOf
    <2>. QED
      BY <1>2, <2>1, FS_Subset, FS_CardinalityType
  <1>11. ASSUME w.route = "history"
         PROVE  Cardinality(v.got) >= v.pages * FindingPage \/ v.got = S
    <2>1. /\ w.limit = FindingPage /\ FindingPage \in Nat \ {0} /\ v.pages = w.pages + 1
          /\ Cardinality(w.got) >= w.pages * FindingPage \/ w.got = S
      BY <1>11 DEF ListWalk, S
    <2>2. CASE w.got = S
      BY <1>4, <1>10, <2>2
    <2>3. CASE P = {i \in S : i > w.after}
      <3>1. \A i \in S : i \in Nat
        BY <1>2
      <3>2. \A i \in S : i <= w.after \/ i > w.after
        BY <3>1
      <3>3. {i \in S : i <= w.after} \cup P = S
        BY <2>3, <3>2
      <3>. QED
        BY <1>4, <1>5, <3>3 DEF ReadOf
    <2>4. CASE Cardinality(w.got) >= w.pages * FindingPage /\ Cardinality(P) >= w.limit
      <3>1. w.got \subseteq S
        BY <1>5 DEF ReadOf
      <3>2. IsFiniteSet(w.got) /\ Cardinality(w.got) \in Nat
        BY <1>2, <3>1, FS_Subset, FS_CardinalityType
      <3>3. w.got \cap P = {}
        <4>1. \A i \in P : i \in S /\ i > w.after
          BY PageIs DEF P
        <4>2. \A i \in w.got : i \in S /\ i <= w.after
          BY <1>5 DEF ReadOf
        <4>3. \A i \in S : i \in Nat
          BY <1>2
        <4>. QED
          BY <4>1, <4>2, <4>3
      <3>4. Cardinality(w.got \cup P) = Cardinality(w.got) + Cardinality(P) - Cardinality(w.got \cap P)
        BY <1>9, <3>2, FS_Union
      <3>5. Cardinality(w.got \cap P) = 0
        BY <3>3, FS_EmptySet
      <3>6. Cardinality(v.got) = Cardinality(w.got) + Cardinality(P)
        BY <1>4, <1>9, <3>2, <3>4, <3>5
      <3>7. v.pages * FindingPage = w.pages * FindingPage + FindingPage /\ w.pages * FindingPage \in Nat
        BY <2>1, OnePageMore
      <3>. QED
        BY <1>9, <2>1, <2>4, <3>2, <3>6, <3>7
    <2>. QED
      BY <1>9, <2>1, <2>2, <2>3, <2>4
  <1>12. ListWalk(v, sides, snap, rows)
    BY <1>1, <1>7, <1>8, <1>11 DEF ListWalk, S
  <1>13. WalkRight(v, sides, snap, log, rows)
    BY <1>1, <1>6, <1>12 DEF WalkRight
  <1>14. ASSUME Finding!Ended(v) PROVE v.got = S
    <2>1. CASE a.page = {}
      <3>1. {i \in S : i <= w.after} = S
        BY <1>2, <1>4, <2>1, PageEmpty DEF P
      <3>. QED
        BY <1>5, <2>1, <3>1 DEF ReadOf
    <2>2. CASE v.route = "history" /\ v.pages = Finding!HistoryPages
      <3>1. FindingRetained \in Nat /\ FindingPage \in Nat \ {0} /\ v.pages = FindingRetained \div FindingPage + 1
        BY <2>2 DEF Finding!HistoryPages, Finding!BoundsAssumption
      <3>2. v.pages * FindingPage > FindingRetained /\ v.pages * FindingPage \in Nat
        BY <1>1, <3>1, PagesSuffice, OnePageMore
      <3>3. SUFFICES ASSUME Cardinality(v.got) >= v.pages * FindingPage PROVE v.got = S
        BY <1>11, <2>2
      <3>4. RetainedRight(log[w.side], S, hist[w.side]) /\ hist[w.side] \in {None} \cup HistoryType
        BY <1>1 DEF FindingState, FindingTypes, S
      <3>5. Cardinality(S) \in Nat
        BY <1>2, FS_CardinalityType
      <3>6. Cardinality(S) <= 1 \/ Cardinality(S) <= FindingRetained
        <4>1. CASE hist[w.side] = None
          <5>1. S = {}
            BY <3>4, <4>1 DEF RetainedRight
          <5>. QED
            BY <5>1, FS_EmptySet
        <4>2. CASE hist[w.side] # None
          BY <3>4, <4>2 DEF RetainedRight
        <4>. QED
          BY <4>1, <4>2
      <3>7. Cardinality(v.got) >= Cardinality(S)
        BY <1>10, <3>1, <3>2, <3>3, <3>5, <3>6
      <3>8. Cardinality(v.got) <= Cardinality(S) /\ (Cardinality(S) = Cardinality(v.got) => v.got = S)
        BY <1>2, <1>10, FS_Subset
      <3>. QED
        BY <1>10, <3>5, <3>7, <3>8
    <2>. QED
      BY <1>14, <2>1, <2>2 DEF Finding!Ended
  <1>15. a.outcome = "complete" => S = DOMAIN log[w.side]
    BY <1>1, <1>4, CompleteHistory DEF S
  <1>16. TrueOf(v, log, rows)
    BY <1>1, <1>14, <1>15 DEF TrueOf, S
  <1>. QED
    BY <1>13, <1>16

-----------------------------------------------------------------------------
(* One step per action.                                                      *)

LEMMA PageStep ==
  ASSUME Finding!BoundsAssumption, FindingInv, Finding!Page
  PROVE  FindingInv' /\ Finding!AnswerIsTrue(walk)'
  <1> DEFINE w == walk
             a == Finding!Answer
             v == walk'
  <1>1. /\ walk # None
        /\ walk' = [walk EXCEPT !.answer = a, !.pages = IF walk.route = "history" THEN @ + 1 ELSE 1,
                                !.got = @ \cup a.page, !.after = Finding!Top(a.page, @)]
        /\ schema' = schema /\ sides' = sides /\ log' = log /\ rows' = rows /\ hist' = hist /\ snap' = snap
    BY DEF Finding!Page
  <1>2. WalkRight(walk, sides, snap, log, rows) /\ FindingState
    BY <1>1 DEF FindingInv
  <1>3. DOMAIN w = WalkFields /\ w.limit \in Nat \ {0} /\ w.after \in Nat /\ w.pages \in Nat
    BY <1>2 DEF WalkRight
  <1>4. a = CASE w.route = "behaviors" -> Finding!ResolveFindingBehaviors(w.finding, w.after, w.limit)
              [] w.route = "observations" -> Finding!ResolveFindingObservations(w.finding, w.after, w.limit)
              [] OTHER -> Finding!ListAnswer(w.side, w.after, w.limit)
    BY DEF Finding!Answer
  <1> HIDE DEF a
  <1> DEFINE p == IF w.route = "history" THEN w.pages + 1 ELSE 1
             g == w.got \cup a.page
             t == Finding!Top(a.page, w.after)
  <1>5. v = [w EXCEPT !.answer = a, !.pages = p, !.got = g, !.after = t]
    BY <1>1, <1>3 DEF WalkFields
  <1> HIDE DEF w, v, p, g, t
  <1>6. /\ DOMAIN v = WalkFields
        /\ v.answer = a /\ v.pages = (IF w.route = "history" THEN w.pages + 1 ELSE 1)
        /\ v.got = w.got \cup a.page /\ v.after = Finding!Top(a.page, w.after)
        /\ v.route = w.route /\ v.finding = w.finding /\ v.side = w.side /\ v.limit = w.limit
    <2>1. /\ DOMAIN v = WalkFields
          /\ v.answer = a /\ v.pages = p /\ v.got = g /\ v.after = t
          /\ v.route = w.route /\ v.finding = w.finding /\ v.side = w.side /\ v.limit = w.limit
      BY <1>3, <1>5 DEF WalkFields
    <2>. QED
      BY <2>1 DEF p, g, t
  <1>7. v.pages \in Nat
    BY <1>3, <1>6
  <1>8. WalkRight(v, sides, snap, log, rows) /\ TrueOf(v, log, rows)
    <2>1. CASE FindingWalk(w, sides, snap, log, rows)
      <3>1. w.finding \in Finding!Findings /\ w.route \in {"behaviors", "observations"}
        BY <2>1 DEF FindingWalk
      <3>2. \/ Nothing(a)
            \/ /\ CanCompare(sides, snap)
               /\ Answered(w.route, w.finding, a, Behind(w.route, w.finding, snap, log, rows), w.after, w.limit)
        <4>1. CASE w.route = "behaviors"
          <5>1. a = Finding!ResolveFindingBehaviors(w.finding, w.after, w.limit)
            BY <1>4, <4>1
          <5>. QED
            BY <1>2, <3>1, <4>1, <5>1, BehaviorsResolved
        <4>2. CASE w.route = "observations"
          <5>1. a = Finding!ResolveFindingObservations(w.finding, w.after, w.limit)
            BY <1>4, <4>2
          <5>. QED
            BY <1>2, <3>1, <4>2, <5>1, ObservationsResolved
        <4>. QED
          BY <3>1, <4>1, <4>2
      <3>. QED
        BY <1>2, <1>3, <1>6, <1>7, <2>1, <3>2, FindingPages
    <2>2. CASE ListWalk(w, sides, snap, rows)
      <3>1. a = Finding!ListAnswer(w.side, w.after, w.limit)
        BY <1>4, <2>2 DEF ListWalk
      <3>. QED
        BY <1>2, <1>3, <1>6, <2>2, <3>1, ListPages
    <2>. QED
      BY <1>2, <2>1, <2>2 DEF WalkRight, w
  <1>9. WalkRight(walk', sides', snap', log', rows') /\ TrueOf(walk', log', rows')
    BY <1>1, <1>8 DEF v
  <1>10. FindingState'
    BY <1>1, <1>2 DEF FindingState, FindingTypes
  <1>11. FindingInv'
    BY <1>9, <1>10 DEF FindingInv
  <1>. QED
    BY <1>9, <1>11, TrueAfter

\* A walk that opens has read nothing and was told nothing.
LEMMA OpenStep ==
  ASSUME Finding!BoundsAssumption, FindingInv, Finding!Open
  PROVE  FindingInv' /\ Finding!AnswerIsTrue(walk)'
  <1>1. schema' = schema /\ sides' = sides /\ log' = log /\ rows' = rows /\ hist' = hist /\ snap' = snap
    BY DEF Finding!Open
  <1>2. FindingState'
    BY <1>1 DEF FindingInv, FindingState, FindingTypes
  <1>3. FindingPage \in Nat \ {0}
    BY DEF Finding!BoundsAssumption
  <1>4. ASSUME NEW route, NEW f, NEW s, NEW n, walk' = Finding!Walk(route, f, s, n)
        PROVE  /\ DOMAIN walk' = WalkFields /\ walk'.after = 0 /\ walk'.got = {} /\ walk'.pages = 0 /\ walk'.answer = None
               /\ walk'.route = route /\ walk'.finding = f /\ walk'.side = s /\ walk'.limit = n
    BY <1>4 DEF Finding!Walk, WalkFields
  <1>5. CASE \E f \in Finding!Findings, route \in {"behaviors", "observations"}, n \in 1..FindingPage :
               walk' = Finding!Walk(route, f, None, n)
    <2>1. PICK f \in Finding!Findings, route \in {"behaviors", "observations"}, n \in 1..FindingPage :
               walk' = Finding!Walk(route, f, None, n)
      BY <1>5
    <2>2. /\ DOMAIN walk' = WalkFields /\ walk'.after = 0 /\ walk'.got = {} /\ walk'.pages = 0 /\ walk'.answer = None
          /\ walk'.route = route /\ walk'.finding = f /\ walk'.limit = n
      BY <1>4, <2>1
    <2>3. FindingWalk(walk', sides', snap', log', rows')
      BY <2>2 DEF FindingWalk
    <2>4. WalkRight(walk', sides', snap', log', rows')
      BY <1>3, <2>2, <2>3 DEF WalkRight
    <2>. QED
      BY <1>2, <2>2, <2>4, TrueAfter DEF FindingInv, TrueOf
  <1>6. ASSUME NEW s \in Finding!Sides, NEW n \in 1..FindingPage, NEW route \in {"list", "history"},
               walk' = Finding!Walk(route, None, s, n),
               route = "history" => CanCompare(sides, snap) /\ n = FindingPage
        PROVE  FindingInv' /\ Finding!AnswerIsTrue(walk)'
    <2>2. /\ DOMAIN walk' = WalkFields /\ walk'.after = 0 /\ walk'.got = {} /\ walk'.pages = 0 /\ walk'.answer = None
          /\ walk'.route = route /\ walk'.side = s /\ walk'.limit = n
      BY <1>4, <1>6
    <2>3. rows[s] \subseteq Nat \ {0}
      BY RowsArePlaces DEF FindingInv
    <2>4. ReadOf(rows[s], 0) = {}
      <3>1. \A i \in rows[s] : i \in Nat /\ i # 0
        BY <2>3
      <3>. QED
        BY <3>1 DEF ReadOf
    <2>5. Cardinality({}) >= 0 * FindingPage
      BY <1>3, FS_EmptySet
    <2>6. ListWalk(walk', sides', snap', rows')
      BY <1>1, <1>6, <2>2, <2>4, <2>5 DEF ListWalk
    <2>7. WalkRight(walk', sides', snap', log', rows')
      BY <1>3, <2>2, <2>6 DEF WalkRight
    <2>. QED
      BY <1>2, <2>2, <2>7, TrueAfter DEF FindingInv, TrueOf
  <1>7. CASE \E s \in Finding!Sides, n \in 1..FindingPage : walk' = Finding!Walk("list", None, s, n)
    BY <1>6, <1>7
  <1>8. CASE Finding!Comparable /\ walk' = Finding!Walk("history", None, "candidate", FindingPage)
    <2>1. FindingPage \in 1..FindingPage /\ "candidate" \in Finding!Sides /\ CanCompare(sides, snap)
      BY <1>3, <1>8, ComparableIs DEF Finding!Sides
    <2>. QED
      BY <1>6, <1>8, <2>1
  <1>. QED
    BY <1>5, <1>7, <1>8 DEF Finding!Open

\* A record accepted comes after all a reader has seen, and a comparison's runs accept none.
LEMMA IngestStep ==
  ASSUME Finding!BoundsAssumption, FindingInv, NEW s \in Finding!Sides, NEW r \in FindingRecords, Finding!Ingest(s, r)
  PROVE  FindingInv'
  <1> DEFINE n == Len(log[s]) + 1
             p == Finding!planObservationRetention(hist[s], n)
             o == Finding!ObserveOperational(s, r)
             rw == IF p.insert THEN rows[s] \cup {n} ELSE rows[s]
  <1>1. /\ sides[s] = "running" /\ schema' = schema /\ sides' = sides /\ walk' = walk
        /\ log' = [log EXCEPT ![s] = Append(@, r)] /\ snap' = [snap EXCEPT ![s] = o]
        /\ \/ schema = "old" /\ rows' = rows /\ hist' = hist
           \/ /\ schema # "old" /\ rows' = IF p.insert THEN [rows EXCEPT ![s] = @ \cup {n}] ELSE rows
              /\ hist' = [hist EXCEPT ![s] = p.row]
    BY DEF Finding!Ingest
  <1>2. FindingState /\ FindingTypes
    BY DEF FindingInv, FindingState
  <1>3. /\ log[s] \in Seq(FindingRecords) /\ rows[s] \in SUBSET Nat /\ hist[s] \in {None} \cup HistoryType
        /\ RetainedRight(log[s], rows[s], hist[s])
    BY <1>2 DEF FindingState, FindingTypes
  <1>4. Append(log[s], r) \in Seq(FindingRecords) /\ Len(log[s]) \in Nat /\ n \in Nat /\ Len(Append(log[s], r)) = n
    BY <1>3, AppendedLog
  <1>5. /\ o \in [entries : SUBSET EntryType, complete : BOOLEAN]
        /\ SnapRight(Append(log[s], r), o)
    BY <1>2, SnapStep
  <1>6. /\ p.row \in HistoryType
        /\ RetainedRight(Append(log[s], r), rw, p.row)
    BY <1>3, RetentionStep
  <1>7. rw \in SUBSET Nat
    BY <1>3, <1>4
  <1>8. \/ schema = "old" /\ rows' = rows /\ hist' = hist
        \/ schema # "old" /\ rows' = [rows EXCEPT ![s] = rw] /\ hist' = [hist EXCEPT ![s] = p.row]
    <2>1. rows \in [Finding!Sides -> SUBSET Nat]
      BY <1>2 DEF FindingTypes
    <2>2. ~p.insert => rows = [rows EXCEPT ![s] = rw]
      BY <2>1
    <2>3. p.insert => [rows EXCEPT ![s] = @ \cup {n}] = [rows EXCEPT ![s] = rw]
      BY <2>1
    <2>. QED
      BY <1>1, <2>2, <2>3
  <1>9. schema = "old" => RetainedRight(Append(log[s], r), rows[s], hist[s])
    <2>1. schema = "old" => hist[s] = None
      BY <1>2 DEF FindingState
    <2>2. 1..Len(log[s]) \subseteq 1..n
      BY <1>4
    <2>. QED
      BY <1>3, <1>4, <2>1, <2>2 DEF RetainedRight
  <1>10. rows'[s] \in {rows[s], rows[s] \cup {n}} /\ \A t \in Finding!Sides \ {s} : rows'[t] = rows[t]
    BY <1>2, <1>8 DEF FindingTypes
  <1> HIDE DEF p, o, rw, n
  <1>11. FindingTypes'
    BY <1>1, <1>2, <1>4, <1>5, <1>6, <1>7, <1>8 DEF FindingTypes
  <1>12. schema' = "old" => \A t \in Finding!Sides : hist'[t] = None
    BY <1>1, <1>2, <1>8 DEF FindingState
  <1>13. ASSUME NEW t \in Finding!Sides PROVE RetainedRight(log'[t], rows'[t], hist'[t]) /\ SnapRight(log'[t], snap'[t])
    <2>1. CASE t = s
      <3>1. log'[s] = Append(log[s], r) /\ snap'[s] = o
        BY <1>1, <1>2 DEF FindingTypes
      <3>2. CASE schema = "old"
        BY <1>5, <1>8, <1>9, <2>1, <3>1, <3>2
      <3>3. CASE schema # "old"
        <4>1. rows'[s] = rw /\ hist'[s] = p.row
          BY <1>2, <1>8, <3>3 DEF FindingTypes
        <4>. QED
          BY <1>5, <1>6, <2>1, <3>1, <4>1
      <3>. QED
        BY <3>2, <3>3
    <2>2. CASE t # s
      <3>1. log'[t] = log[t] /\ snap'[t] = snap[t] /\ rows'[t] = rows[t] /\ hist'[t] = hist[t]
        BY <1>1, <1>2, <1>8, <2>2 DEF FindingTypes
      <3>. QED
        BY <1>2, <3>1 DEF FindingState
    <2>. QED
      BY <2>1, <2>2
  <1>14. FindingState'
    BY <1>11, <1>12, <1>13 DEF FindingState
  <1>15. ASSUME walk' # None PROVE WalkRight(walk', sides', snap', log', rows')
    <2>1. WalkRight(walk, sides, snap, log, rows) /\ ~CanCompare(sides, snap)
      BY <1>1, <1>15 DEF FindingInv, CanCompare
    <2>2. CASE FindingWalk(walk, sides, snap, log, rows)
      <3>1. FindingWalk(walk', sides', snap', log', rows')
        BY <1>1, <2>1, <2>2 DEF FindingWalk
      <3>. QED
        BY <1>1, <2>1, <3>1 DEF WalkRight
    <2>3. CASE ListWalk(walk, sides, snap, rows)
      <3>1. /\ walk.route = "list" /\ walk.side \in Finding!Sides
            /\ walk.after = 0 \/ walk.after \in rows[walk.side]
            /\ walk.got = ReadOf(rows[walk.side], walk.after) /\ walk.after \in Nat
        BY <2>1, <2>3 DEF ListWalk, WalkRight
      <3>2. walk.after \in rows'[walk.side] \/ walk.after = 0
        BY <1>10, <3>1
      <3>3. walk.side = s => n > walk.after
        <4>1. walk.side = s => walk.after <= Len(log[s])
          BY <1>3, <1>4, <3>1 DEF RetainedRight
        <4>. QED
          BY <1>4, <3>1, <4>1 DEF n
      <3>4. ReadOf(rows'[walk.side], walk.after) = ReadOf(rows[walk.side], walk.after)
        <4>1. CASE walk.side # s
          BY <1>10, <3>1, <4>1
        <4>2. CASE walk.side = s
          <5>1. ~(n <= walk.after)
            BY <1>4, <3>1, <3>3, <4>2
          <5>2. CASE rows'[s] = rows[s]
            BY <4>2, <5>2
          <5>3. CASE rows'[s] = rows[s] \cup {n}
            BY <4>2, <5>1, <5>3 DEF ReadOf
          <5>. QED
            BY <1>10, <5>2, <5>3
        <4>. QED
          BY <4>1, <4>2
      <3>5. ListWalk(walk', sides', snap', rows')
        BY <1>1, <3>1, <3>2, <3>4 DEF ListWalk
      <3>. QED
        BY <1>1, <2>1, <3>5 DEF WalkRight
    <2>. QED
      BY <2>1, <2>2, <2>3 DEF WalkRight
  <1>. QED
    BY <1>14, <1>15 DEF FindingInv

\* Completing a run changes nothing that is read.
LEMMA CompleteStep ==
  ASSUME Finding!BoundsAssumption, FindingInv, NEW s \in Finding!Sides, Finding!Complete(s)
  PROVE  FindingInv'
  <1>1. /\ sides' = [sides EXCEPT ![s] = "completed"]
        /\ schema' = schema /\ log' = log /\ rows' = rows /\ hist' = hist /\ snap' = snap /\ walk' = walk
    BY DEF Finding!Complete
  <1>2. FindingState /\ sides \in [Finding!Sides -> {"running", "completed"}]
    BY DEF FindingInv, FindingState, FindingTypes
  <1>3. FindingState'
    BY <1>1, <1>2 DEF FindingState, FindingTypes
  <1>4. CanCompare(sides, snap) => CanCompare(sides', snap')
    BY <1>1, <1>2 DEF CanCompare
  <1>5. ASSUME walk' # None PROVE WalkRight(walk', sides', snap', log', rows')
    <2>1. WalkRight(walk, sides, snap, log, rows)
      BY <1>1, <1>5 DEF FindingInv
    <2>2. FindingWalk(walk, sides, snap, log, rows) => FindingWalk(walk', sides', snap', log', rows')
      BY <1>1, <1>4 DEF FindingWalk
    <2>3. ListWalk(walk, sides, snap, rows) => ListWalk(walk', sides', snap', rows')
      BY <1>1, <1>4 DEF ListWalk
    <2>. QED
      BY <1>1, <2>1, <2>2, <2>3 DEF WalkRight
  <1>. QED
    BY <1>3, <1>5 DEF FindingInv

\* Every step keeps the invariant and a step of the reader tells the truth.
LEMMA FindingStep ==
  ASSUME Finding!BoundsAssumption, FindingInv, [Finding!Next]_(Finding!vars)
  PROVE  FindingInv' /\ Finding!NewAnswerIsTrue
  <1>1. CASE UNCHANGED Finding!vars
    <2>1. schema' = schema /\ sides' = sides /\ log' = log /\ rows' = rows /\ hist' = hist /\ snap' = snap /\ walk' = walk
      BY <1>1 DEF Finding!vars
    <2>2. FindingState'
      BY <2>1 DEF FindingInv, FindingState, FindingTypes
    <2>. QED
      BY <2>1, <2>2 DEF FindingInv, Finding!NewAnswerIsTrue
  <1>2. ASSUME NEW s \in Finding!Sides, NEW r \in FindingRecords, Finding!Ingest(s, r)
        PROVE  FindingInv' /\ Finding!NewAnswerIsTrue
    <2>1. walk' = walk
      BY <1>2 DEF Finding!Ingest
    <2>. QED
      BY <1>2, <2>1, IngestStep DEF Finding!NewAnswerIsTrue
  <1>3. ASSUME NEW s \in Finding!Sides, Finding!Complete(s)
        PROVE  FindingInv' /\ Finding!NewAnswerIsTrue
    <2>1. walk' = walk
      BY <1>3 DEF Finding!Complete
    <2>. QED
      BY <1>3, <2>1, CompleteStep DEF Finding!NewAnswerIsTrue
  <1>4. CASE Finding!Upgrade
    <2>1. /\ schema' = "retaining" /\ walk' = walk
          /\ sides' = sides /\ log' = log /\ rows' = rows /\ hist' = hist /\ snap' = snap
      BY <1>4 DEF Finding!Upgrade
    <2>2. FindingState'
      BY <2>1 DEF FindingInv, FindingState, FindingTypes
    <2>. QED
      BY <2>1, <2>2 DEF FindingInv, Finding!NewAnswerIsTrue
  <1>5. CASE Finding!Open
    BY <1>5, OpenStep DEF Finding!NewAnswerIsTrue
  <1>6. CASE Finding!Page
    BY <1>6, PageStep DEF Finding!NewAnswerIsTrue
  <1>7. CASE Finding!Close
    <2>1. /\ walk' = None /\ schema' = schema
          /\ sides' = sides /\ log' = log /\ rows' = rows /\ hist' = hist /\ snap' = snap
      BY <1>7 DEF Finding!Close
    <2>2. FindingState'
      BY <2>1 DEF FindingInv, FindingState, FindingTypes
    <2>. QED
      BY <2>1, <2>2 DEF FindingInv, Finding!NewAnswerIsTrue
  <1>. QED
    BY <1>1, <1>2, <1>3, <1>4, <1>5, <1>6, <1>7 DEF Finding!Next

\* Nothing has been accepted and nobody reads.
LEMMA FindingBegins ==
  ASSUME Finding!BoundsAssumption, Finding!Init PROVE FindingInv
  <1>1. << >> \in Seq(FindingRecords) /\ DOMAIN << >> = {} /\ Len(<< >>) = 0
    OBVIOUS
  <1>2. FindingTypes
    BY <1>1 DEF Finding!Init, FindingTypes
  <1>3. ASSUME NEW s \in Finding!Sides
        PROVE  /\ log[s] = << >> /\ rows[s] = {} /\ hist[s] = None
               /\ snap[s] = [entries |-> {}, complete |-> TRUE]
    BY DEF Finding!Init
  <1>4. ASSUME NEW s \in Finding!Sides PROVE RetainedRight(log[s], rows[s], hist[s])
    BY <1>1, <1>3 DEF RetainedRight
  <1>5. ASSUME NEW s \in Finding!Sides PROVE SnapRight(log[s], snap[s])
    <2>1. snap[s].entries = {} /\ {log[s][i].id : i \in DOMAIN log[s]} = {}
      BY <1>1, <1>3
    <2>. QED
      BY <2>1 DEF SnapRight
  <1>. QED
    BY <1>2, <1>3, <1>4, <1>5 DEF FindingInv, FindingState, Finding!Init

FindingPartInv == part = "finding" => FindingInv

\* Whatever a reader is told about a finding is true of every record both
\* runs accepted, on every page and for every bound of the store
\* (ResolveFindingBehaviors, ResolveFindingObservations, runObservationPage,
\* retainedHistory).
THEOREM AnswersTrue == EvidenceSpec => AnswersAreTrue
  <1>1. EvidenceInit => FindingPartInv
    BY PartsAssumption, FindingBegins DEF EvidenceInit, FindingPartInv
  <1>2. FindingPartInv /\ [EvidenceNext]_all => FindingPartInv' /\ (part = "finding" => Finding!NewAnswerIsTrue)
    <2> SUFFICES ASSUME FindingPartInv, [EvidenceNext]_all
                 PROVE  FindingPartInv' /\ (part = "finding" => Finding!NewAnswerIsTrue)
      OBVIOUS
    <2>1. part' = part
      BY PartStays
    <2>2. CASE part = "finding"
      <3>1. [Finding!Next]_(Finding!vars)
        BY <2>2 DEF EvidenceNext, all, findingVars, Finding!vars
      <3>. QED
        BY <2>1, <2>2, <3>1, FindingStep, PartsAssumption DEF FindingPartInv
    <2>3. CASE part # "finding"
      BY <2>1, <2>3 DEF FindingPartInv
    <2>. QED
      BY <2>2, <2>3
  <1>3. FindingPartInv /\ [EvidenceNext]_all => [part = "finding" => Finding!NewAnswerIsTrue]_all
    BY <1>2
  <1>. QED
    BY <1>1, <1>2, <1>3, PTL DEF EvidenceSpec, AnswersAreTrue

-----------------------------------------------------------------------------
(* The comparison of repeated runs. *)

\* The gate over repeated runs passes exactly when the repetitions show what
\* the caller asked, its figures are theirs, with one run a side it is the
\* single-run gate, and the record kept of it is valid (reduceRepeated,
\* evaluateFrequencyGates, ScenarioGateRecord.validate).
THEOREM VerdictRight == EvidenceSpec => []VerdictIsRight
  <1> DEFINE PartInv == part = "repeated" => Repeated!RepeatedInv
  <1>1. EvidenceInit => PartInv
    BY Repeated!RepeatedInit, PartsAssumption DEF EvidenceInit
  <1>2. PartInv /\ [EvidenceNext]_all => PartInv'
    <2> SUFFICES ASSUME PartInv, [EvidenceNext]_all, part = "repeated" PROVE Repeated!RepeatedInv'
      BY PartStays
    <2>1. [Repeated!Next]_(Repeated!vars)
      BY DEF EvidenceNext, all, repeatedVars, Repeated!vars
    <2>. QED
      BY <2>1, Repeated!RepeatedStep, PartsAssumption
  <1>3. PartInv => VerdictIsRight
    BY Repeated!RepeatedRight, PartsAssumption DEF VerdictIsRight
  <1>. QED
    BY <1>1, <1>2, <1>3, PTL DEF EvidenceSpec
=============================================================================
