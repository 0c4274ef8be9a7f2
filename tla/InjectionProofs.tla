--------------------------- MODULE InjectionProofs ---------------------------
(***************************************************************************)
(* What follows for the names in a pod's volumes from module Injection     *)
(* alone, and so for both models that implement it.                        *)
(***************************************************************************)
EXTENDS Injection, TLAPS

StageInv(p) ==
    /\ stage[p] = "open" => ca[p] = None
    /\ stage[p] # "closed" => truststore[p] = None
    /\ stage[p] = "half" => ca[p] = root[p] \/ moved[p]
    /\ truststore[p] \in {None, ca[p]} \/ moved[p]

InjectionInv == \A p \in Pods : StageInv(p)

LEMMA InjectionInvEver == Spec => []InjectionInv
<1>1. Init => InjectionInv
  BY DEF Init, InjectionInv, StageInv
<1>2. InjectionInv /\ [Next]_names => InjectionInv'
  <2> SUFFICES ASSUME InjectionInv, [Next]_names, NEW p \in Pods PROVE StageInv(p)'
    BY DEF InjectionInv
  <2>1. StageInv(p)
    BY DEF InjectionInv
  <2>2. CASE NamesCA(p)
    BY <2>1, <2>2 DEF NamesCA, StageInv
  <2>3. CASE NamesTruststore(p)
    BY <2>1, <2>3 DEF NamesTruststore, StageInv
  <2>4. CASE GivesUp(p)
    BY <2>1, <2>4 DEF GivesUp, StageInv
  <2>5. CASE RootMoves(p)
    BY <2>1, <2>5 DEF RootMoves, StageInv
  <2>6. CASE LeftAlone(p)
    BY <2>1, <2>6 DEF LeftAlone, StageInv
  <2>7. CASE UNCHANGED names
    BY <2>1, <2>7 DEF names, StageInv
  <2> QED
    BY <2>2, <2>3, <2>4, <2>5, <2>6, <2>7 DEF Next
<1> QED
  BY <1>1, <1>2, PTL DEF Spec

(***************************************************************************)
(* Two walks in one call, with anything in between, give two volumes of    *)
(* one root unless the root changed.                                       *)
(***************************************************************************)
THEOREM NamesAgreeEver == Spec => []NamesAgree
<1>1. InjectionInv => NamesAgree
  BY DEF InjectionInv, StageInv, NamesAgree
<1> QED
  BY <1>1, InjectionInvEver, PTL

(***************************************************************************)
(* What a volume is named after is settled for good.                       *)
(***************************************************************************)
THEOREM NamedOnceEver == Spec => NamedOnce
<1> DEFINE Settled == \A p \in Pods : /\ ca[p] # None => ca'[p] = ca[p]
                                      /\ truststore[p] # None => truststore'[p] = truststore[p]
<1>1. InjectionInv /\ [Next]_names => [Settled]_names
  <2> SUFFICES ASSUME InjectionInv, Next, NEW p \in Pods
               PROVE  /\ ca[p] # None => ca'[p] = ca[p]
                      /\ truststore[p] # None => truststore'[p] = truststore[p]
    OBVIOUS
  <2>1. StageInv(p)
    BY DEF InjectionInv
  <2> QED
    BY <2>1 DEF Next, StageInv, NamesCA, NamesTruststore, GivesUp, RootMoves, LeftAlone
<1> QED
  BY <1>1, InjectionInvEver, PTL DEF Spec, NamedOnce
=============================================================================
