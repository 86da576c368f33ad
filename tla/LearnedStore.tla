---------------------------- MODULE LearnedStore ----------------------------
(***************************************************************************)
(* What the engine's stores promise of what was learned, with locks,       *)
(* snapshots, transactions, crashes and migrations taken away: the         *)
(* baselines that survive only ever gain calls, each under its own key, in *)
(* one step for all that becomes durable together; and a call is           *)
(* acknowledged only once it is durable.                                   *)
(***************************************************************************)
EXTENDS Naturals

CONSTANTS Keys, Calls, KeyOf

VARIABLES
    durable,      \* [Keys -> the calls in the baseline that survives]
    acknowledged  \* calls whose caller was told so

svars == <<durable, acknowledged>>

SInit ==
    /\ durable = [k \in Keys |-> {}]
    /\ acknowledged = {}

Save ==
    /\ durable' \in [Keys -> SUBSET Calls]
    /\ \A k \in Keys : durable[k] \subseteq durable'[k] /\ \A c \in durable'[k] : KeyOf[c] = k
    /\ \/ UNCHANGED acknowledged
       \/ \E c \in Calls : c \in durable'[KeyOf[c]] /\ acknowledged' = acknowledged \cup {c}

SSpec == SInit /\ [][Save]_svars
=============================================================================
