------------------------- MODULE ProvisioningProofs -------------------------
(***************************************************************************)
(* What the contract is good for.                                          *)
(***************************************************************************)
EXTENDS Provisioning, TLAPS

(***************************************************************************)
(* Whoever keeps the contract never forgets what an admitted pod waits     *)
(* for: whatever order requests are taken, served, given up and recalled   *)
(* in, it is pending, stored, in the log or recalled.                      *)
(***************************************************************************)
THEOREM NothingForgottenEver == Spec => []NothingForgotten
<1>1. Init => NothingForgotten
  BY DEF Init, NothingForgotten
<1>2. NothingForgotten /\ [Next]_contract => NothingForgotten'
  <2> SUFFICES ASSUME NothingForgotten, [Next]_contract PROVE NothingForgotten'
    OBVIOUS
  <2>1. CASE Ask \/ Admit \/ Leave \/ Recall
    BY <2>1 DEF NothingForgotten, Accounted, Ask, Admit, Leave, Recall
  <2>2. ASSUME NEW i \in pending, Serve(i) PROVE NothingForgotten'
    BY <2>2 DEF NothingForgotten, Accounted, Serve
  <2>3. ASSUME NEW S \in SUBSET pending, GiveUp(S) PROVE NothingForgotten'
    BY <2>3 DEF NothingForgotten, Accounted, GiveUp
  <2>4. ASSUME NEW i \in stored, Remove(i) PROVE NothingForgotten'
    BY <2>4 DEF NothingForgotten, Accounted, Remove
  <2>5. CASE UNCHANGED contract
    BY <2>5 DEF NothingForgotten, Accounted, contract
  <2> QED
    BY <2>1, <2>2, <2>3, <2>4, <2>5 DEF Next
<1> QED
  BY <1>1, <1>2, PTL DEF Spec
=============================================================================
