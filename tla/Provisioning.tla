---------------------------- MODULE Provisioning ----------------------------
(***************************************************************************)
(* What cain promises those who submit pods, without webhooks, channels,   *)
(* goroutines and processes: the resources a pod that was let in depends   *)
(* on exist, are being created, or there is a reason on record why not.    *)
(***************************************************************************)
VARIABLES
    owed,      \* what pods that were let in wait for
    pending,   \* what somebody has taken on to create
    stored,    \* what exists
    logged,    \* what was given up
    recalled   \* what was asked to be deleted, or lost its owner

contract == <<owed, pending, stored, logged, recalled>>

Accounted == pending \cup stored \cup logged \cup recalled

Init == owed = {} /\ pending = {} /\ stored = {} /\ logged = {} /\ recalled = {}

-----------------------------------------------------------------------------
Ask ==
    /\ pending \subseteq pending'
    /\ UNCHANGED <<owed, stored, logged, recalled>>

\* a pod is let in only when what it will wait for is accounted for
Admit ==
    /\ owed \subseteq owed'
    /\ owed' \subseteq owed \cup Accounted
    /\ UNCHANGED <<pending, stored, logged, recalled>>

Leave ==
    /\ owed' \subseteq owed
    /\ UNCHANGED <<pending, stored, logged, recalled>>

\* it may still be pending: two pods may ask for the same
Serve(i) ==
    /\ i \in pending
    /\ stored' = stored \cup {i}
    /\ pending' \in {pending, pending \ {i}}
    /\ UNCHANGED <<owed, logged, recalled>>

\* whether it was created after all is not known
GiveUp(S) ==
    /\ pending \ S \subseteq pending' /\ pending' \subseteq pending
    /\ stored \subseteq stored' /\ stored' \subseteq stored \cup S
    /\ logged' = logged \cup S
    /\ UNCHANGED <<owed, recalled>>

Recall ==
    /\ recalled \subseteq recalled'
    /\ UNCHANGED <<owed, pending, stored, logged>>

Remove(i) ==
    /\ i \in recalled
    /\ stored' = stored \ {i}
    /\ UNCHANGED <<owed, pending, logged, recalled>>

Next == \/ Ask \/ Admit \/ Leave \/ Recall
        \/ \E i \in pending : Serve(i)
        \/ \E S \in SUBSET pending : GiveUp(S)
        \/ \E i \in stored : Remove(i)

Spec == Init /\ [][Next]_contract

\* the contract's point: nothing a pod waits for is ever forgotten
NothingForgotten == owed \subseteq Accounted
=============================================================================
