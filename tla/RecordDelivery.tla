--------------------------- MODULE RecordDelivery ---------------------------
(***************************************************************************)
(* What the evaluation sink promises of each record, with the journal, the *)
(* sequences, the network and the crashes taken away: the run may come to  *)
(* hold it; only then may it be learned from, once, and in the order the   *)
(* records were produced; or its learning is given up as indeterminate,    *)
(* and it is never learned from afterwards.                                *)
(***************************************************************************)
EXTENDS Naturals

CONSTANT Records    \* a set of naturals: the order records are produced in

VARIABLES
    held,     \* records the run holds
    observed, \* [Records -> times learned from]
    unsure    \* records whose learning was reported as indeterminate

dvars == <<held, observed, unsure>>

DInit ==
    /\ held = {}
    /\ observed = [r \in Records |-> 0]
    /\ unsure = {}

Commit(r) ==
    /\ r \notin held
    /\ held' = held \cup {r}
    /\ UNCHANGED <<observed, unsure>>

\* The record is observed now: the run holds it, nothing observed it before,
\* nobody was told its learning is indeterminate, and no later record was
\* observed already.
MayObserve(r) ==
    /\ r \in held
    /\ r \notin unsure
    /\ \A q \in Records : q >= r => observed[q] = 0

Learn(r) ==
    /\ MayObserve(r)
    /\ observed' = [observed EXCEPT ![r] = 1]
    /\ UNCHANGED <<held, unsure>>

GiveUp(r) ==
    /\ r \in held
    /\ unsure' = unsure \cup {r}
    /\ \/ UNCHANGED observed
       \/ MayObserve(r) /\ observed' = [observed EXCEPT ![r] = 1]
    /\ UNCHANGED held

DNext == \E r \in Records : Commit(r) \/ Learn(r) \/ GiveUp(r)

DSpec == DInit /\ [][DNext]_dvars
=============================================================================
