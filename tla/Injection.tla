------------------------------ MODULE Injection ------------------------------
(***************************************************************************)
(* What the mutating webhook promises about the names in a pod's volumes,  *)
(* without containers, mounts, calls and processes: the CA's volume is     *)
(* named once, then the truststore's if at all, each after the root the    *)
(* pod has at that moment.  Both models of Mutate implement it: Cain with  *)
(* its two steps a pod, and Mutator with all that may happen to one pod.   *)
(***************************************************************************)
CONSTANTS
    Pods,
    None        \* no name yet

VARIABLES
    root,       \* the name that the owner references of each pod lead to now
    ca,         \* the name in its CA volume
    truststore, \* the name in its truststore's volume
    stage,      \* "open": nothing is named; "half": the truststore's name may follow; "closed"
    moved       \* the root changed, between the two names at least

names == <<root, ca, truststore, stage, moved>>

Init ==
    /\ ca = [p \in Pods |-> None]
    /\ truststore = [p \in Pods |-> None]
    /\ stage = [p \in Pods |-> "open"]
    /\ moved = [p \in Pods |-> FALSE]

-----------------------------------------------------------------------------
NamesCA(p) ==
    /\ stage[p] = "open"
    /\ ca'[p] = root[p]
    /\ stage'[p] \in {"half", "closed"}
    /\ UNCHANGED <<root[p], truststore[p], moved[p]>>

NamesTruststore(p) ==
    /\ stage[p] = "half"
    /\ truststore'[p] = root[p]
    /\ stage'[p] = "closed"
    /\ UNCHANGED <<root[p], ca[p], moved[p]>>

\* no injection, no truststore, no root owner, or no answer
GivesUp(p) ==
    /\ stage'[p] = "closed"
    /\ UNCHANGED <<root[p], ca[p], truststore[p], moved[p]>>

RootMoves(p) ==
    /\ moved[p] \/ stage[p] = "half" => moved'[p]
    /\ UNCHANGED <<ca[p], truststore[p], stage[p]>>

LeftAlone(p) == UNCHANGED <<root[p], ca[p], truststore[p], stage[p], moved[p]>>

\* each pod for itself: a process that ends gives up several at once
Next == \A p \in Pods : \/ NamesCA(p) \/ NamesTruststore(p) \/ GivesUp(p)
                        \/ RootMoves(p) \/ LeftAlone(p)

Spec == Init /\ [][Next]_names

-----------------------------------------------------------------------------
(***************************************************************************)
(* The truststore a pod mounts is that of the root whose CA it mounts,     *)
(* unless the root changed.                                                *)
(***************************************************************************)
NamesAgree == \A p \in Pods : truststore[p] \in {None, ca[p]} \/ moved[p]

(***************************************************************************)
(* A volume never gets another name, however often the webhook is called.  *)
(***************************************************************************)
NamedOnce ==
    [][\A p \in Pods : /\ ca[p] # None => ca'[p] = ca[p]
                       /\ truststore[p] # None => truststore'[p] = truststore[p]]_names
=============================================================================
