--------------------------- MODULE ContractProofs ---------------------------
(***************************************************************************)
(* Cain keeps the contract of module Provisioning, creates CA Secrets with *)
(* the bundle of the running process, no Certificate without taking on its *)
(* password, and keeps the contract of module Injection for the names in   *)
(* the volumes of the pods.                                                *)
(***************************************************************************)
EXTENDS CainProofs

USE DEF ObjectIds, OwnerRefs, Objects, Data

Invariants == TypeOK /\ HandlerInv /\ NothingUnasked /\ SentInv /\ PodInv

LEMMA InvariantsEver == Spec => []Invariants
<1>1. Init => Invariants
  BY TypeInit, HandlerInvInit, UnaskedInit, SentInvInit, PodInvInit DEF Invariants
<1>2. Invariants /\ [Next]_vars => Invariants'
  BY TypeStep, HandlerInvStep, UnaskedStep, SentInvStep, PodInvStep DEF Invariants
<1> QED
  BY <1>1, <1>2, PTL DEF Spec

-----------------------------------------------------------------------------
(***************************************************************************)
(* The creator never holds a Certificate, and when it holds a CA Secret it *)
(* is one of this process: the bundle only changes while it is down.       *)
(***************************************************************************)
CreatorInv ==
    /\ process = "down" => creator.pc # "call"
    /\ creator.pc = "call" => /\ creator.req.id.kind # "certificate"
                              /\ creator.req.id.kind = "ca" => creator.req.data = bundle

LEMMA BundleSteps ==
    ASSUME [Next]_vars
    PROVE  \/ process = "down" /\ UNCHANGED creator
           \/ UNCHANGED <<bundle, process>>
           \/ creator' = CreatorIdle
<1>1. CASE UNCHANGED vars
  BY <1>1 DEF vars, runtimeVars
<1>2. ASSUME \/ \E p \in Pods : Submit(p) \/ AddTruststore(p) \/ Unreachable(p)
             \/ \E r \in Reviews, p \in Pods, op \in Operations, dry \in BOOLEAN : Review(r, p, op, dry)
             \/ \E r \in Reviews : HangUp(r) \/ Settle(r) \/ Handler(r)
             \/ ClusterStep \/ SecretWorker \/ DeleteWorker \/ CertWorker \/ Rest
      PROVE  UNCHANGED <<bundle, process>>
  BY <1>2 DEF Submit, AddTruststore, Unreachable, Review, HangUp, Settle, Handler, ClusterStep,
              SecretWorker, DeleteWorker, CertWorker, Rest, vars, runtimeVars
<1>3. CASE ProcessStep \/ ShutdownStep
  BY <1>3 DEF ProcessStep, Signal, TaskFails, ShutdownStep, BeginShutdown, EndShutdown
<1>4. CASE RunReturns \/ Kill
  BY <1>4 DEF RunReturns, Kill, Die
<1>5. CASE Restart
  BY <1>5 DEF Restart, Start, StartFails, creatorVars
<1> QED
  BY <1>1, <1>2, <1>3, <1>4, <1>5 DEF Next

LEMMA WorkersUp ==
    ASSUME [Next]_vars
    PROVE  (\E r \in Reviews : SendSecret(r)) \/ SendPassword =>
              \/ process = "up" \/ UNCHANGED creator \/ creator' = CreatorIdle
<1>1. ASSUME \/ \E r \in Reviews : Handler(r)
             \/ SecretWorker \/ CertWorker \/ DeleteWorker
      PROVE  process = "up"
  BY <1>1 DEF Handler, SecretWorker, CertWorker, DeleteWorker
<1>2. ASSUME \/ UNCHANGED vars
             \/ \E p \in Pods : Submit(p) \/ AddTruststore(p) \/ Unreachable(p)
             \/ \E r \in Reviews, p \in Pods, op \in Operations, dry \in BOOLEAN : Review(r, p, op, dry)
             \/ \E r \in Reviews : HangUp(r) \/ Settle(r)
             \/ ClusterStep \/ ProcessStep \/ ShutdownStep \/ Restart \/ Rest
      PROVE  UNCHANGED creator
  BY <1>2 DEF Submit, AddTruststore, Unreachable, Review, HangUp, Settle, ClusterStep, ProcessStep,
              ShutdownStep, Restart, Rest, vars, creatorVars
<1>3. ASSUME RunReturns \/ Kill PROVE creator' = CreatorIdle
  BY <1>3 DEF RunReturns, Kill, Die
<1> QED
  BY <1>1, <1>2, <1>3 DEF Next

LEMMA CreatorInvStep == CreatorInv /\ [Next]_vars => CreatorInv'
<1> SUFFICES ASSUME CreatorInv, [Next]_vars PROVE CreatorInv'
  OBVIOUS
<1>1. CASE creator'.pc # "call"
  BY <1>1 DEF CreatorInv
<1>2. CASE UNCHANGED creator
  BY <1>2, BundleSteps DEF CreatorInv, CreatorIdle
<1>3. CASE (\E r \in Reviews : SendSecret(r)) \/ SendPassword
  <2>1. CASE creator' = CreatorIdle
    BY <1>1, <2>1 DEF CreatorIdle
  <2>2. CASE process = "up" /\ UNCHANGED <<bundle, process>>
    <3>1. ASSUME NEW r \in Reviews, SendSecret(r) PROVE CreatorInv'
      BY <2>2, <3>1 DEF SendSecret, CreatorReceives, SecretRequest, SecretName, CreatorInv
    <3>2. CASE SendPassword
      BY <2>2, <3>2 DEF SendPassword, CreatorReceives, PasswordRequest, TruststorePasswordSecretName,
                        CreatorInv
    <3> QED
      BY <1>3, <3>1, <3>2
  <2> QED
    BY <1>2, <1>3, <2>1, <2>2, BundleSteps, WorkersUp
<1> QED
  BY <1>1, <1>2, <1>3, CreatorSteps

LEMMA CreatorInvEver == Spec => []CreatorInv
<1>1. Init => CreatorInv
  BY DEF Init, RuntimeInit, CreatorInit, CreatorIdle, CreatorInv
<1> QED
  BY <1>1, CreatorInvStep, PTL DEF Spec

(***************************************************************************)
(* Whenever a CA Secret appears, it holds the bundle the running process   *)
(* read when it started, whatever was rotated, killed or restarted while   *)
(* the request was under way.                                              *)
(***************************************************************************)
THEOREM CreatedWithBundleEver == Spec => CreatedWithBundle
<1>1. ASSUME TypeOK, CreatorInv, [Next]_vars, NEW i \in ObjectIds, i.kind = "ca", ~Exists(i), Exists(i)'
      PROVE  objects'[i].data = bundle
  <2>1. objects \in [ObjectIds -> Objects \cup {None}]
    BY <1>1 DEF TypeOK, ClusterTypeOK
  <2>2. ASSUME NEW j, Removes(j) PROVE FALSE
    BY <1>1, <2>1, <2>2 DEF Removes, Exists
  <2>3. ASSUME NEW j, NEW o, Stores(j, o) PROVE i = j /\ objects'[i] = o
    BY <1>1, <2>1, <2>3 DEF Stores, Exists
  <2>4. CertificateId(certCreator.info).kind = "certificate"
    BY DEF CertificateId, CertificateName
  <2>5. creator.pc = "call" /\ i = creator.req.id /\ objects'[i] = NewSecret(creator.req)
    BY <1>1, <2>2, <2>3, <2>4, ObjectSteps DEF Exists
  <2> QED
    BY <1>1, <2>5 DEF CreatorInv, NewSecret
<1>2. TypeOK /\ CreatorInv /\ [Next]_vars =>
        [\A i \in ObjectIds : i.kind = "ca" /\ ~Exists(i) /\ Exists(i)' => objects'[i].data = bundle]_vars
  BY <1>1
<1> QED
  BY <1>2, TypeCorrect, CreatorInvEver, PTL DEF Spec, CreatedWithBundle

-----------------------------------------------------------------------------
(***************************************************************************)
(* The certificate creator asks for the password before the Certificate.   *)
(***************************************************************************)
PasswordInv ==
    /\ CertificateHasPassword
    /\ certCreator.pc = "call" => Accounted(PasswordRequest(certCreator.info).id)

LEMMA PasswordInvStep == Invariants /\ CreatorInv /\ PasswordInv /\ [Next]_vars => PasswordInv'
<1> SUFFICES ASSUME TypeOK, HandlerInv, NothingUnasked, CreatorInv, PasswordInv, [Next]_vars
             PROVE  CertificateHasPassword' /\ (certCreator'.pc = "call" => Accounted(PasswordRequest(certCreator.info).id)')
  BY DEF Invariants, PasswordInv
<1>1. ASSUME certCreator'.pc = "call"
      PROVE  Accounted(PasswordRequest(certCreator.info).id)'
  <2>1. CASE UNCHANGED certCreator
    <3>1. PICK id \in ObjectIds : id = PasswordRequest(certCreator.info).id /\ Accounted(id)
      BY <1>1, <2>1, RequestTypes DEF PasswordInv, TypeOK, CertCreatorTypeOK
    <3>2. Accounted(id)'
      BY <3>1, AccountedStays
    <3>3. PasswordRequest(certCreator.info).id' = id
      BY <2>1, <3>1 DEF PasswordRequest
    <3> QED
      BY <3>2, <3>3
  <2>2. ASSUME NEW r \in Reviews, SendCert(r) PROVE FALSE
    BY <1>1, <2>2 DEF SendCert, CertCreatorReceives
  <2>3. CASE SendPassword
    <3>1. creator'.pc = "call" /\ creator'.req.id = PasswordRequest(certCreator.info).id
      BY <2>3 DEF SendPassword, CreatorReceives
    <3>2. certCreator'.info = certCreator.info
      BY <2>3 DEF SendPassword, TypeOK, CertCreatorTypeOK
    <3>3. PasswordRequest(certCreator.info).id' = creator'.req.id
      BY <3>1, <3>2 DEF PasswordRequest
    <3> QED
      BY <3>1, <3>3 DEF Accounted, InCreator
  <2> QED
    BY <1>1, <2>1, <2>2, <2>3, CertCreatorSteps
<1>2. ASSUME NEW i \in ObjectIds, i.kind = "certificate", Exists(i)'
      PROVE  Accounted(TruststorePasswordSecretName(i.ns, i.base))'
  <2>1. PICK id \in ObjectIds : id = TruststorePasswordSecretName(i.ns, i.base)
    BY NamesAreIds
  <2>2. objects \in [ObjectIds -> Objects \cup {None}]
    BY DEF TypeOK, ClusterTypeOK
  <2>3. Accounted(id)
    <3>1. CASE Exists(i)
      BY <1>2, <2>1, <3>1 DEF PasswordInv, CertificateHasPassword
    <3>2. CASE ~Exists(i)
      <4>1. ASSUME NEW j, Removes(j) PROVE FALSE
        BY <1>2, <2>2, <3>2, <4>1 DEF Removes, Exists
      <4>2. ASSUME NEW j, NEW o, Stores(j, o) PROVE i = j
        BY <1>2, <2>2, <3>2, <4>2 DEF Stores, Exists
      <4>3. certCreator.pc = "call" /\ i = CertificateId(certCreator.info)
        BY <1>2, <3>2, <4>1, <4>2, ObjectSteps DEF CreatorInv, Exists
      <4>4. PasswordRequest(certCreator.info).id = id
        BY <2>1, <4>3 DEF PasswordRequest, CertificateId, CertificateName
      <4> QED
        BY <4>3, <4>4 DEF PasswordInv
    <3> QED
      BY <3>1, <3>2
  <2>4. Accounted(id)'
    BY <2>3, AccountedStays
  <2> QED
    BY <2>1, <2>4
<1> QED
  BY <1>1, <1>2 DEF CertificateHasPassword

(***************************************************************************)
(* There is no Certificate whose password was forgotten, although another  *)
(* goroutine creates it.                                                   *)
(***************************************************************************)
THEOREM CertificateHasPasswordEver == Spec => []CertificateHasPassword
<1>1. Init => PasswordInv
  BY DEF Init, ClusterInit, CertCreatorInit, CertCreatorIdle, PasswordInv, CertificateHasPassword, Exists
<1>2. PasswordInv => CertificateHasPassword
  BY DEF PasswordInv
<1> QED
  BY <1>1, <1>2, PasswordInvStep, InvariantsEver, CreatorInvEver, PTL DEF Spec

-----------------------------------------------------------------------------
(***************************************************************************)
(* The refinement.  The five variables of the contract are functions of    *)
(* Cain's; first what leaves them alone.                                   *)
(***************************************************************************)
LEMMA OwedMember ==
    /\ \A id : id \in Owed <=> \E p \in Pods : Live(p) /\ Unmoved(p) /\ id \in AwaitedBy(p)
    /\ \A id : id \in Owed' <=> \E p \in Pods : Live(p)' /\ Unmoved(p)' /\ id \in AwaitedBy(p)'
BY DEF Owed

LEMMA OwedSame ==
    ASSUME UNCHANGED root,
           \A p \in Pods : Live(p)' = Live(p) /\ (Live(p) => pods'[p] = pods[p])
    PROVE  UNCHANGED Owed
BY OwedMember DEF Unmoved, AwaitedBy

LEMMA OwedShrinks ==
    ASSUME \A p \in Pods : Unmoved(p)' => Unmoved(p),
           \A p \in Pods : Live(p)' => Live(p) /\ pods'[p].ca = pods[p].ca
                                               /\ pods'[p].truststore = pods[p].truststore
    PROVE  Owed' \subseteq Owed
BY OwedMember DEF AwaitedBy

LEMMA RecalledGrows ==
    ASSUME TypeOK, HandlerInv, [Next]_vars
    PROVE  Recalled \subseteq Recalled'
BY WantedStays, OrphanedStays DEF Recalled

LEMMA RecalledSame ==
    ASSUME TypeOK, HandlerInv, [Next]_vars, UNCHANGED dead,
           \A r \in Reviews : Provides(r)' => Provides(r),
           \A r \in Reviews : AsksDeletion(r)' => AsksDeletion(r)
    PROVE  UNCHANGED Recalled
<1>1. ASSUME NEW i \in ObjectIds, DeletionWanted(i)' PROVE DeletionWanted(i)
  <2>1. PICK r \in Reviews : AsksDeletion(r)' /\ i = DeletedSecret(r)'
    BY <1>1 DEF DeletionWanted
  <2>2. AsksDeletion(r) /\ reviews'[r].pod = reviews[r].pod
    BY <2>1, AskingStays
  <2> QED
    BY <2>1, <2>2 DEF DeletionWanted, DeletedSecret, PodOf
<1>2. ASSUME NEW i \in ObjectIds, Orphaned(i)' PROVE Orphaned(i)
  <2>1. PICK r \in Reviews : /\ Provides(r)'
                             /\ i.ns = PodOf(r)'.ns /\ i.base = reviews'[r].root.name
                             /\ reviews'[r].root.uid \in dead
    BY <1>2 DEF Orphaned
  <2>2. Provides(r) /\ reviews'[r].pod = reviews[r].pod /\ reviews'[r].root = reviews[r].root
    BY <2>1, AskingStays
  <2> QED
    BY <2>1, <2>2 DEF Orphaned, PodOf
<1> QED
  BY <1>1, <1>2, RecalledGrows DEF Recalled

\* the reviews change, but nobody asks for more than before
LEMMA NothingMoreAsked ==
    ASSUME TypeOK, HandlerInv, [Next]_vars, UNCHANGED dead,
           \/ UNCHANGED reviews
           \/ \E r \in Reviews : Begins(r) \/ StopsWaiting(r)
           \/ AllFail
           \/ \E r \in Reviews, pc \in {"closeCert", "closeDelete", "failed", "denied", "sendCert"} : Goto(r, pc)
           \/ \E r \in Reviews : reviews[r].op = "CREATE" /\ Goto(r, "allowed")
    PROVE  UNCHANGED Recalled
<1>1. reviews \in [Reviews -> ReviewRecords] /\ \A r \in Reviews : reviews[r] \in ReviewRecords
  BY DEF TypeOK, ValidatorTypeOK
<1>2. ASSUME NEW s \in Reviews
      PROVE  (Provides(s)' => Provides(s)) /\ (AsksDeletion(s)' => AsksDeletion(s))
  <2>1. CASE reviews'[s] = reviews[s]
    BY <2>1 DEF Provides, AsksDeletion, At, PodOf, Ownerless
  <2>2. CASE Begins(s)
    <3>1. reviews'[s].root = None /\ reviews'[s].pc = "start"
      BY <1>1, <2>2 DEF Begins
    <3> QED
      BY <3>1 DEF Provides, AsksDeletion, At
  <2>3. ASSUME NEW pc, reviews' = [reviews EXCEPT ![s].pc = pc] \/ reviews'[s] = [reviews[s] EXCEPT !.pc = pc]
        PROVE  /\ reviews'[s].pc = pc /\ reviews'[s].root = reviews[s].root
               /\ reviews'[s].op = reviews[s].op /\ reviews'[s].pod = reviews[s].pod
               /\ reviews'[s].dry = reviews[s].dry
    BY <1>1, <2>3 DEF ReviewRecords
  <2>4. CASE AllFail
    <3>1. reviews'[s] = reviews[s] \/ reviews'[s] = [reviews[s] EXCEPT !.pc = "failed"]
      BY <2>4 DEF AllFail
    <3> QED
      BY <2>1, <2>3, <3>1 DEF Provides, AsksDeletion, At, PodOf
  <2>5. CASE \E pc \in {"closeCert", "closeDelete", "failed", "denied", "sendCert"} : Goto(s, pc)
    BY <2>3, <2>5 DEF Goto, Provides, AsksDeletion, At, PodOf
  <2>6. CASE reviews[s].op = "CREATE" /\ Goto(s, "allowed")
    BY <2>3, <2>6 DEF Goto, Provides, AsksDeletion, At, PodOf
  <2>7. ASSUME NEW r \in Reviews, StopsWaiting(r)
        PROVE  /\ reviews'[s].pc = reviews[s].pc /\ reviews'[s].root = reviews[s].root
               /\ reviews'[s].op = reviews[s].op /\ reviews'[s].pod = reviews[s].pod
               /\ reviews'[s].dry = reviews[s].dry
    BY <1>1, <2>7 DEF StopsWaiting, ReviewRecords
  <2>8. CASE \E r \in Reviews : StopsWaiting(r)
    BY <2>7, <2>8 DEF Provides, AsksDeletion, At, PodOf, Ownerless
  <2>9. ASSUME NEW r \in Reviews, r # s, Begins(r) \/ \E pc : Goto(r, pc) PROVE reviews'[s] = reviews[s]
    BY <1>1, <2>9 DEF Begins, Goto
  <2> QED
    BY <2>1, <2>2, <2>4, <2>5, <2>6, <2>8, <2>9
<1> QED
  BY <1>2, RecalledSame

LEMMA UnaskedRecalled ==
    ASSUME TypeOK, NothingUnasked, NEW i \in ObjectIds
    PROVE  /\ Exists(i) /\ objects[i].owner \in dead => i \in Recalled
           /\ deleter.pc = "call" => deleter.id \in Recalled
<1>1. ASSUME Exists(i), objects[i].owner \in dead PROVE Orphaned(i)
  <2>1. PICK r \in Reviews :
          /\ Provides(r)
          /\ objects[i].owner = reviews[r].root.uid
          /\ i \in {SecretRequest(r).id, PasswordRequest(CertInfo(r)).id, CertificateId(CertInfo(r))}
    BY <1>1 DEF NothingUnasked, Wanted
  <2>2. i.ns = PodOf(r).ns /\ i.base = reviews[r].root.name
    BY <2>1 DEF SecretRequest, PasswordRequest, CertificateId, CertInfo, SecretName,
                TruststorePasswordSecretName, CertificateName
  <2> QED
    BY <1>1, <2>1, <2>2 DEF Orphaned
<1>2. deleter.pc = "call" => deleter.id \in ObjectIds /\ DeletionWanted(deleter.id)
  BY DEF NothingUnasked, TypeOK, DeleterTypeOK
<1> QED
  BY <1>1, <1>2 DEF Recalled

LEMMA InStoreAfter ==
    ASSUME TypeOK, NEW i \in ObjectIds
    PROVE  /\ \A o \in Objects : Stores(i, o) => InStore' = InStore \cup {i}
           /\ Removes(i) => InStore' = InStore \ {i}
           /\ UNCHANGED objects => InStore' = InStore
<1>1. objects \in [ObjectIds -> Objects \cup {None}] /\ None \notin Objects
  BY ClusterAssumption DEF TypeOK, ClusterTypeOK
<1> QED
  BY <1>1 DEF InStore, Stores, Removes, Exists

-----------------------------------------------------------------------------
(***************************************************************************)
(* Every step is one of the contract's, or leaves its variables alone.     *)
(***************************************************************************)
Implements == P!Next \/ UNCHANGED <<Owed, InHand, InStore, dropped, Recalled>>

LEMMA AsAsk ==
    ASSUME InHand \subseteq InHand', UNCHANGED <<Owed, InStore, dropped, Recalled>>
    PROVE  Implements
BY DEF Implements, P!Next, P!Ask

LEMMA AsRecall ==
    ASSUME Recalled \subseteq Recalled', UNCHANGED <<Owed, InHand, InStore, dropped>>
    PROVE  Implements
BY DEF Implements, P!Next, P!Recall

LEMMA AsLeave ==
    ASSUME Owed' \subseteq Owed, UNCHANGED <<InHand, InStore, dropped, Recalled>>
    PROVE  Implements
BY DEF Implements, P!Next, P!Leave

LEMMA AsServe ==
    ASSUME NEW i \in InHand, InStore' = InStore \cup {i}, InHand' \in {InHand, InHand \ {i}},
           UNCHANGED <<Owed, dropped, Recalled>>
    PROVE  Implements
BY DEF Implements, P!Next, P!Serve

LEMMA AsGiveUp ==
    ASSUME NEW S \in SUBSET InHand, InHand \ S \subseteq InHand', InHand' \subseteq InHand,
           InStore \subseteq InStore', InStore' \subseteq InStore \cup S, dropped' = dropped \cup S,
           UNCHANGED <<Owed, Recalled>>
    PROVE  Implements
BY DEF Implements, P!Next, P!GiveUp

LEMMA AsRemove ==
    ASSUME NEW i \in InStore, i \in Recalled, InStore' = InStore \ {i},
           UNCHANGED <<Owed, InHand, dropped, Recalled>>
    PROVE  Implements
BY DEF Implements, P!Next, P!Remove

\* what the actions of the API server's side have in common
LEMMA PodsOnly ==
    ASSUME TypeOK, HandlerInv, [Next]_vars, UNCHANGED <<objects, dead, creatorVars, certCreator>>,
           UNCHANGED reviews \/ \E r \in Reviews : Begins(r) \/ StopsWaiting(r)
    PROVE  UNCHANGED <<InHand, InStore, dropped, Recalled>>
<1>1. UNCHANGED Recalled
  BY NothingMoreAsked
<1>2. UNCHANGED <<InHand, InStore, dropped>>
  BY DEF InHand, InCreator, InCertCreator, InStore, Exists, creatorVars
<1> QED
  BY <1>1, <1>2

LEMMA WebhookCallsImplement ==
    ASSUME TypeOK, HandlerInv, [Next]_vars,
           \/ \E p \in Pods : Submit(p) \/ AddTruststore(p) \/ Unreachable(p)
           \/ \E r \in Reviews, p \in Pods, op \in Operations, dry \in BOOLEAN : Review(r, p, op, dry)
           \/ \E r \in Reviews : HangUp(r)
    PROVE  Implements
<1>1. pods \in [Pods -> PodRecords]
  BY DEF TypeOK, ClusterTypeOK
<1>2. /\ UNCHANGED <<objects, root, dead, creatorVars, certCreator>>
      /\ UNCHANGED reviews \/ \E r \in Reviews : Begins(r) \/ StopsWaiting(r)
  <2>1. ASSUME NEW p \in Pods, Submit(p) \/ AddTruststore(p) \/ Unreachable(p)
        PROVE  UNCHANGED <<objects, root, dead, creatorVars, certCreator, reviews>>
    BY <2>1 DEF Submit, AddTruststore, Unreachable
  <2>2. ASSUME NEW r \in Reviews, NEW p \in Pods, NEW op \in Operations, NEW dry \in BOOLEAN,
               Review(r, p, op, dry)
        PROVE  Begins(r) /\ UNCHANGED <<objects, root, dead, creatorVars, certCreator>>
    BY <2>2 DEF Review, Begins
  <2>3. ASSUME NEW r \in Reviews, HangUp(r)
        PROVE  StopsWaiting(r) /\ UNCHANGED <<objects, root, dead, creatorVars, certCreator>>
    BY <2>3 DEF HangUp, StopsWaiting
  <2> QED
    BY <2>1, <2>2, <2>3
<1>3. \A p \in Pods : Live(p)' => Live(p) /\ pods'[p].ca = pods[p].ca
                                           /\ pods'[p].truststore = pods[p].truststore
  <2> USE DEF Live
  <2>1. ASSUME NEW q \in Pods, Submit(q) \/ AddTruststore(q), NEW p \in Pods
        PROVE  p = q => pods'[p].st # "live"
    <3>1. CASE Submit(q)
      <4>1. PICK name : pods' = [pods EXCEPT
               ![q].ca = name,
               ![q].st = IF name # None /\ Manifest[q].jvm THEN "mutating" ELSE "submitted"]
        BY <3>1 DEF Submit
      <4> QED
        BY <1>1, <4>1 DEF PodRecords
    <3>2. CASE AddTruststore(q)
      BY <1>1, <3>2 DEF AddTruststore, PodRecords
    <3> QED
      BY <2>1, <3>1, <3>2
  <2>2. ASSUME NEW q \in Pods, Submit(q) \/ AddTruststore(q), NEW p \in Pods
        PROVE  p # q => pods'[p] = pods[p]
    BY <1>1, <2>2 DEF Submit, AddTruststore
  <2>3. ASSUME NEW q, NEW st \in {"gone", "reviewing"}, pods' = [pods EXCEPT ![q].st = st], NEW p \in Pods
        PROVE  Live(p)' => pods'[p] = pods[p]
    BY <1>1, <2>3 DEF PodRecords
  <2>4. CASE \E p \in Pods : Submit(p) \/ AddTruststore(p)
    BY <2>1, <2>2, <2>4
  <2>5. CASE \E p \in Pods : Unreachable(p)
    BY <2>3, <2>5 DEF Unreachable
  <2>6. CASE \E r \in Reviews, p \in Pods, op \in Operations, dry \in BOOLEAN : Review(r, p, op, dry)
    <3>1. UNCHANGED pods \/ \E q : pods' = [pods EXCEPT ![q].st = "reviewing"]
      BY <2>6 DEF Review
    <3> QED
      BY <2>3, <3>1
  <2>7. CASE \E r \in Reviews : HangUp(r)
    <3>1. UNCHANGED pods \/ \E q : pods' = [pods EXCEPT ![q].st = "gone"]
      BY <2>7 DEF HangUp
    <3> QED
      BY <2>3, <3>1
  <2> QED
    BY <2>4, <2>5, <2>6, <2>7
<1>4. Owed' \subseteq Owed
  BY <1>2, <1>3, OwedShrinks DEF Unmoved
<1> QED
  BY <1>2, <1>4, PodsOnly, AsLeave

(***************************************************************************)
(* A pod becomes live when its review was allowed: then what it will wait  *)
(* for is accounted for.                                                   *)
(***************************************************************************)
LEMMA SettleImplements ==
    ASSUME TypeOK, HandlerInv, AdmittedIsProvisioned', [Next]_vars, NEW r \in Reviews, Settle(r)
    PROVE  Implements
<1>1. pods \in [Pods -> PodRecords]
  BY DEF TypeOK, ClusterTypeOK
<1>2. UNCHANGED <<objects, root, dead, creatorVars, certCreator>> /\ StopsWaiting(r)
  BY DEF Settle, StopsWaiting
<1>3. UNCHANGED <<InHand, InStore, dropped, Recalled>>
  BY <1>2, PodsOnly
<1>4. PICK st : pods' = [pods EXCEPT ![reviews[r].pod].st = st]
  BY DEF Settle
<1>5. \A p \in Pods : /\ pods'[p].ca = pods[p].ca /\ pods'[p].truststore = pods[p].truststore
                      /\ pods'[p].st = IF p = reviews[r].pod THEN st ELSE pods[p].st
  BY <1>1, <1>4 DEF PodRecords
<1>6. CASE st = "live"
  <2>1. Owed \subseteq Owed'
    BY <1>2, <1>5, <1>6, OwedMember DEF Unmoved, Live, AwaitedBy
  <2>2. ASSUME NEW id \in Owed' PROVE id \in InHand \cup InStore \cup dropped \cup Recalled
    <3>1. PICK p \in Pods : Live(p)' /\ Unmoved(p)' /\ id \in AwaitedBy(p)'
      BY <2>2, OwedMember
    <3>2. pods[p].ca \in Names \cup {None} /\ pods[p].truststore \in Names \cup {None}
      BY <1>1 DEF PodRecords
    <3>3. id \in ObjectIds
      BY <1>5, <3>1, <3>2, NamesAreIds, ManifestType DEF AwaitedBy
    <3>4. Accounted(id)'
      BY <3>1 DEF AdmittedIsProvisioned, AwaitedBy
    <3> QED
      BY <1>3, <3>3, <3>4 DEF Accounted, InHand, InStore, Recalled
  <2> QED
    BY <1>3, <2>1, <2>2 DEF Implements, P!Next, P!Admit, P!Accounted
<1>7. CASE st # "live"
  <2>1. Owed' \subseteq Owed
    BY <1>2, <1>5, <1>7, OwedShrinks DEF Unmoved, Live
  <2> QED
    BY <1>3, <2>1, AsLeave
<1> QED
  BY <1>6, <1>7

\* what handlers and workers leave alone
LEMMA OwedStays ==
    ASSUME UNCHANGED <<pods, root>>
    PROVE  UNCHANGED Owed
BY OwedSame DEF Live

LEMMA HandlerImplements ==
    ASSUME TypeOK, HandlerInv, [Next]_vars, NEW r \in Reviews, Handler(r)
    PROVE  Implements
<1>1. UNCHANGED <<objects, pods, root, dead, dropped>> /\ HandlerStep(r)
  BY DEF Handler, clusterVars
<1>2. UNCHANGED <<Owed, InStore, dropped>>
  BY <1>1, OwedStays DEF InStore, Exists
<1>3. Recalled \subseteq Recalled'
  BY RecalledGrows
<1>4. CASE SendSecret(r)
  <2>1. reviews[r].op = "CREATE"
    BY <1>4 DEF SendSecret, HandlerInv, Provides, At
  <2>2. UNCHANGED Recalled
    BY <1>1, <1>4, <2>1, NothingMoreAsked DEF SendSecret
  <2>3. InHand \subseteq InHand'
    BY <1>4 DEF SendSecret, CreatorReceives, InHand, InCreator, InCertCreator
  <2> QED
    BY <1>2, <2>2, <2>3, AsAsk
<1>5. CASE SendCert(r)
  <2>1. reviews[r].op = "CREATE"
    BY <1>5 DEF SendCert, HandlerInv, Provides, At
  <2>2. UNCHANGED Recalled
    BY <1>1, <1>5, <2>1, NothingMoreAsked DEF SendCert
  <2>3. InHand \subseteq InHand'
    BY <1>5 DEF SendCert, CertCreatorReceives, InHand, InCreator, InCertCreator
  <2> QED
    BY <1>2, <2>2, <2>3, AsAsk
<1>6. CASE UNCHANGED <<creator, certCreator>>
  <2>1. UNCHANGED InHand
    BY <1>6 DEF InHand, InCreator, InCertCreator
  <2> QED
    BY <1>2, <1>3, <2>1, AsRecall
<1> QED
  BY <1>1, <1>4, <1>5, <1>6 DEF HandlerStep, CloseSecret, ClosePanics, CloseCert, CloseDelete, Dispatch,
     SendDelete, Resolve, ResolveFails, HandlerPanics

LEMMA ClusterImplements ==
    ASSUME TypeOK, HandlerInv, NothingUnasked, [Next]_vars, ClusterStep
    PROVE  Implements
<1>1. UNCHANGED <<creatorVars, certCreator, reviews>>
  BY DEF ClusterStep
<1>2. UNCHANGED <<InHand, dropped>>
  BY <1>1 DEF InHand, InCreator, InCertCreator, creatorVars
<1>3. UNCHANGED dead => UNCHANGED Recalled
  BY <1>1, NothingMoreAsked
<1>4. ASSUME NEW u \in Uids, OwnerDeleted(u) PROVE Implements
  <2>1. UNCHANGED <<Owed, InStore>>
    BY <1>4, OwedStays DEF OwnerDeleted, InStore, Exists
  <2> QED
    BY <1>2, <2>1, RecalledGrows, AsRecall
<1>5. ASSUME NEW i \in ObjectIds, CollectGarbage(i) PROVE Implements
  <2>1. UNCHANGED <<Owed, Recalled>>
    BY <1>3, <1>5, OwedStays DEF CollectGarbage
  <2>2. i \in InStore /\ i \in Recalled
    BY <1>5, UnaskedRecalled DEF CollectGarbage, InStore
  <2>3. InStore' = InStore \ {i}
    BY <1>5, InStoreAfter DEF CollectGarbage
  <2> QED
    BY <1>2, <2>1, <2>2, <2>3, AsRemove
<1>6. ASSUME NEW p \in Pods, NEW o \in Owners, Reparent(p, o) PROVE Implements
  <2>1. UNCHANGED <<InStore, Recalled>>
    BY <1>3, <1>6 DEF Reparent, InStore, Exists
  <2>2. Owed' \subseteq Owed
    BY <1>6, UnmovedWas, OwedShrinks DEF Reparent, Live
  <2> QED
    BY <1>2, <2>1, <2>2, AsLeave
<1>7. ASSUME (\E t \in TruststoreIds : IssueTruststore(t)) \/ RotateCA PROVE Implements
  <2>1. UNCHANGED <<Owed, InStore, Recalled>>
    BY <1>3, <1>7, OwedStays DEF IssueTruststore, RotateCA, InStore, Exists
  <2> QED
    BY <1>2, <2>1 DEF Implements
<1> QED
  BY <1>4, <1>5, <1>6, <1>7 DEF ClusterStep

LEMMA SecretWorkerImplements ==
    ASSUME TypeOK, HandlerInv, [Next]_vars, SecretWorker
    PROVE  Implements
<1>1. CreatorStep /\ UNCHANGED <<pods, root, dead, certCreator, reviews>>
  BY DEF SecretWorker
<1>2. UNCHANGED <<Owed, Recalled>>
  BY <1>1, OwedStays, NothingMoreAsked
<1>3. UNCHANGED InCertCreator
  BY <1>1 DEF InCertCreator
<1>4. creator.pc = "call" => /\ creator.req.id \in InHand /\ creator.req.id \in ObjectIds
                             /\ NewSecret(creator.req) \in Objects
                             /\ InHand = InCertCreator \cup {creator.req.id}
  BY RequestTypes DEF InHand, InCreator, TypeOK, CreatorTypeOK
<1>5. creator' = CreatorIdle => InHand' = InCertCreator
  BY <1>3 DEF InHand, InCreator, CreatorIdle
<1>6. CASE CreateSucceeds
  <2>1. InStore' = InStore \cup {creator.req.id}
    BY <1>4, <1>6, InStoreAfter DEF CreateSucceeds
  <2>2. InHand' \in {InHand, InHand \ {creator.req.id}}
    BY <1>4, <1>5, <1>6 DEF CreateSucceeds
  <2> QED
    BY <1>2, <1>4, <1>6, <2>1, <2>2, AsServe DEF CreateSucceeds
<1>7. CASE CreateFindsSecret
  <2>1. InStore' = InStore \cup {creator.req.id}
    BY <1>4, <1>7 DEF CreateFindsSecret, InStore, Exists
  <2>2. InHand' \in {InHand, InHand \ {creator.req.id}}
    BY <1>4, <1>5, <1>7 DEF CreateFindsSecret
  <2> QED
    BY <1>2, <1>4, <1>7, <2>1, <2>2, AsServe DEF CreateFindsSecret
<1>8. CASE CreateFails
  <2>1. InStore' \in {InStore, InStore \cup {creator.req.id}}
    BY <1>4, <1>8, InStoreAfter DEF CreateFails, MayStore
  <2>2. {creator.req.id} \in SUBSET InHand /\ dropped' = dropped \cup {creator.req.id}
    BY <1>4, <1>8 DEF CreateFails
  <2>3. InHand \ {creator.req.id} \subseteq InHand' /\ InHand' \subseteq InHand
    BY <1>4, <1>5, <1>8 DEF CreateFails
  <2> QED
    BY <1>2, <2>1, <2>2, <2>3, AsGiveUp
<1>9. CASE CreatorExits
  <2>1. UNCHANGED <<InHand, InStore, dropped>>
    BY <1>3, <1>9 DEF CreatorExits, InHand, InCreator, InStore, Exists
  <2> QED
    BY <1>2, <2>1 DEF Implements
<1> QED
  BY <1>1, <1>6, <1>7, <1>8, <1>9 DEF CreatorStep

LEMMA DeleteWorkerImplements ==
    ASSUME TypeOK, HandlerInv, NothingUnasked, [Next]_vars, DeleteWorker
    PROVE  Implements
<1>1. DeleterStep /\ UNCHANGED <<pods, root, dead, creatorVars, certCreator, reviews>>
  BY DEF DeleteWorker
<1>2. UNCHANGED <<Owed, InHand, dropped, Recalled>>
  BY <1>1, OwedStays, NothingMoreAsked DEF InHand, InCreator, InCertCreator, creatorVars
<1>3. CASE UNCHANGED objects
  BY <1>2, <1>3 DEF Implements, InStore, Exists
<1>4. CASE deleter.pc = "call" /\ Removes(deleter.id)
  <2>1. deleter.id \in ObjectIds
    BY <1>4 DEF TypeOK, DeleterTypeOK
  <2>2. deleter.id \in InStore /\ deleter.id \in Recalled
    BY <1>4, <2>1, UnaskedRecalled DEF Removes, InStore
  <2>3. InStore' = InStore \ {deleter.id}
    BY <1>4, <2>1, InStoreAfter
  <2> QED
    BY <1>2, <2>2, <2>3, AsRemove
<1> QED
  BY <1>1, <1>3, <1>4 DEF DeleterStep, DeleteSucceeds, DeleteFindsNothing, DeleteRefused,
     DeleteInterrupted, DeleterExits, MayRemove

LEMMA CertWorkerImplements ==
    ASSUME TypeOK, HandlerInv, [Next]_vars, CertWorker
    PROVE  Implements
<1> DEFINE ct == CertificateId(certCreator.info)
           pw == PasswordRequest(certCreator.info).id
<1>1. CertCreatorStep /\ UNCHANGED <<pods, root, dead, reviews>>
  BY DEF CertWorker
<1>2. UNCHANGED <<Owed, Recalled>>
  BY <1>1, OwedStays, NothingMoreAsked
<1>3. certCreator.pc = "call" => /\ ct \in InHand /\ ct \in ObjectIds
                                 /\ NewCertificate(certCreator.info) \in Objects
                                 /\ InHand = InCreator \cup {ct}
  BY RequestTypes DEF InHand, InCertCreator, TypeOK, CertCreatorTypeOK
<1>4. certCreator' = CertCreatorIdle /\ UNCHANGED creator => InHand' = InCreator
  BY DEF InHand, InCertCreator, InCreator, CertCreatorIdle
<1>5. CASE SendPassword
  <2>1. certCreator.pc = "send" /\ creator.pc = "receive" /\ UNCHANGED <<objects, dropped>>
    BY <1>5 DEF SendPassword, CreatorReceives
  <2>2. certCreator'.pc = "call" /\ certCreator'.info = certCreator.info
    BY <1>5 DEF SendPassword, TypeOK, CertCreatorTypeOK
  <2>3. creator'.pc = "call" /\ creator'.req.id = pw
    BY <1>5 DEF SendPassword, CreatorReceives
  <2>4. InCreator' = {pw} /\ InCertCreator' = {ct}
    BY <2>2, <2>3 DEF InCreator, InCertCreator
  <2>5. InCreator = {} /\ InCertCreator = {pw, ct}
    BY <2>1 DEF InCreator, InCertCreator
  <2>6. UNCHANGED InHand
    BY <2>4, <2>5 DEF InHand
  <2> QED
    BY <1>2, <2>1, <2>6 DEF Implements, InStore, Exists
<1>6. CASE SendPanics
  <2>1. InHand = InCreator \cup {pw, ct}
    BY <1>6 DEF SendPanics, InHand, InCertCreator
  <2>2. InHand' = InCreator /\ dropped' = dropped \cup {pw, ct} /\ UNCHANGED InStore
    BY <1>6 DEF SendPanics, InHand, InCertCreator, InCreator, InStore, Exists
  <2>3. {pw, ct} \in SUBSET InHand /\ InHand \ {pw, ct} \subseteq InHand' /\ InHand' \subseteq InHand
    BY <2>1, <2>2
  <2> QED
    BY <1>2, <2>2, <2>3, AsGiveUp
<1>7. CASE CertificateCreated
  <2>1. InStore' = InStore \cup {ct}
    BY <1>3, <1>7, InStoreAfter DEF CertificateCreated
  <2>2. InHand' \in {InHand, InHand \ {ct}}
    BY <1>3, <1>4, <1>7 DEF CertificateCreated
  <2> QED
    BY <1>2, <1>3, <1>7, <2>1, <2>2, AsServe DEF CertificateCreated
<1>8. CASE CertificateFound
  <2>1. InStore' = InStore \cup {ct}
    BY <1>3, <1>8 DEF CertificateFound, InStore, Exists
  <2>2. InHand' \in {InHand, InHand \ {ct}}
    BY <1>3, <1>4, <1>8 DEF CertificateFound
  <2> QED
    BY <1>2, <1>3, <1>8, <2>1, <2>2, AsServe DEF CertificateFound
<1>9. CASE CertificateRefused \/ CertificateInterrupted
  <2>1. /\ certCreator.pc = "call" /\ certCreator' = CertCreatorIdle /\ UNCHANGED creator
        /\ dropped' = dropped \cup {ct}
    BY <1>9 DEF CertificateRefused, CertificateInterrupted
  <2>2. InStore' \in {InStore, InStore \cup {ct}}
    BY <1>3, <1>9, <2>1, InStoreAfter DEF CertificateRefused, CertificateInterrupted, MayStore
  <2>3. {ct} \in SUBSET InHand /\ InHand \ {ct} \subseteq InHand' /\ InHand' \subseteq InHand
    BY <1>3, <1>4, <2>1
  <2> QED
    BY <1>2, <2>1, <2>2, <2>3, AsGiveUp
<1>10. CASE CertCreatorExits
  <2>1. UNCHANGED <<InHand, InStore, dropped>>
    BY <1>10 DEF CertCreatorExits, InHand, InCreator, InCertCreator, InStore, Exists
  <2> QED
    BY <1>2, <2>1 DEF Implements
<1> QED
  BY <1>1, <1>5, <1>6, <1>7, <1>8, <1>9, <1>10 DEF CertCreatorStep

(***************************************************************************)
(* The end of the process gives up everything the workers had taken on.    *)
(***************************************************************************)
LEMMA DieImplements ==
    ASSUME TypeOK, HandlerInv, [Next]_vars, Die
    PROVE  Implements
<1>1. AllFail /\ UNCHANGED <<objects, root, dead>>
  BY DEF Die, AllFail
<1>2. UNCHANGED <<InStore, Recalled>>
  BY <1>1, NothingMoreAsked DEF InStore, Exists
<1>3. UNCHANGED Owed
  BY <1>1, OwedSame DEF Die, Live, TypeOK, ClusterTypeOK, PodRecords
<1>4. InHand' = {} /\ dropped' = dropped \cup InHand
  BY DEF Die, InHand, InCreator, InCertCreator, CreatorIdle, CertCreatorIdle
<1> QED
  BY <1>2, <1>3, <1>4, AsGiveUp

LEMMA RestImplements ==
    ASSUME \/ UNCHANGED vars
           \/ ProcessStep \/ ShutdownStep \/ Restart \/ Rest
    PROVE  Implements
<1>1. UNCHANGED <<clusterVars, creatorVars, certCreator, reviews>>
  BY DEF ProcessStep, ShutdownStep, Restart, Rest, vars
<1>2. UNCHANGED <<pods, root, dead, objects, creator, dropped>>
  BY <1>1 DEF clusterVars, creatorVars
<1>3. UNCHANGED <<Owed, InStore>>
  BY <1>2, OwedStays DEF InStore, Exists
<1>4. UNCHANGED InHand
  BY <1>1, <1>2 DEF InHand, InCreator, InCertCreator
<1>5. UNCHANGED Recalled
  BY <1>1, <1>2 DEF Recalled, DeletionWanted, Orphaned, AsksDeletion, Provides, DeletedSecret, PodOf, At,
                    Ownerless
<1> QED
  BY <1>2, <1>3, <1>4, <1>5 DEF Implements

(***************************************************************************)
(* Cain implements Provisioning: nothing the two webhooks, the workers,    *)
(* the cluster, faults and restarts do is more than the contract allows,   *)
(* for every set of pods, reviews and names.                               *)
(***************************************************************************)
THEOREM KeepsContractEver == Spec => KeepsContract
<1>1. Init => P!Init
  <2> SUFFICES ASSUME Init PROVE P!Init
    OBVIOUS
  <2>1. Owed = {} /\ InHand = {} /\ InStore = {} /\ dropped = {}
    BY DEF Init, ClusterInit, CreatorInit, CreatorIdle, CertCreatorInit, CertCreatorIdle, Owed, Live,
           InHand, InCreator, InCertCreator, InStore, Exists
  <2>2. \A r \in Reviews : ~AsksDeletion(r) /\ ~Provides(r)
    BY DEF Init, ValidatorInit, AsksDeletion, Provides, At
  <2>3. Recalled = {}
    BY <2>2 DEF Recalled, DeletionWanted, Orphaned
  <2> QED
    BY <2>1, <2>3 DEF P!Init
<1>2. Invariants /\ AdmittedIsProvisioned' /\ [Next]_vars => [P!Next]_(P!contract)
  <2> SUFFICES ASSUME TypeOK, HandlerInv, NothingUnasked, AdmittedIsProvisioned', [Next]_vars
               PROVE  Implements
    BY DEF Invariants, Implements, P!contract
  <2>1. ASSUME NEW r \in Reviews, HangUp(r) \/ Settle(r) \/ Handler(r) PROVE Implements
    BY <2>1, WebhookCallsImplement, SettleImplements, HandlerImplements
  <2>2. CASE RunReturns \/ Kill
    BY <2>2, DieImplements DEF RunReturns, Kill
  <2> QED
    BY <2>1, <2>2, WebhookCallsImplement, ClusterImplements, SecretWorkerImplements,
       DeleteWorkerImplements, CertWorkerImplements, RestImplements DEF Next
<1> QED
  BY <1>1, <1>2, InvariantsEver, AdmittedIsProvisionedEver, PTL DEF Spec, KeepsContract, P!Spec

-----------------------------------------------------------------------------
(***************************************************************************)
(* The names in the volumes, for module Injection: apart from the two      *)
(* steps of the mutating webhook, whatever happens to a pod ends its stay  *)
(* there or leaves it where it is.                                         *)
(***************************************************************************)
StaysOrLeaves(p) ==
    /\ VolumesStay(p)
    /\ pods'[p].st = pods[p].st \/ pods'[p].st \notin {"new", "mutating"}

LEMMA OthersStay ==
    ASSUME TypeOK, [Next]_vars, NEW p \in Pods
    PROVE  Submit(p) \/ AddTruststore(p) \/ StaysOrLeaves(p)
<1> USE DEF VolumesStay, StaysOrLeaves
<1>1. pods \in [Pods -> PodRecords] /\ pods[p] \in PodRecords
  BY DEF TypeOK, ClusterTypeOK
<1>2. CASE UNCHANGED pods
  BY <1>2
<1>3. ASSUME NEW q, NEW st, pods' = [pods EXCEPT ![q].st = st],
             q = p => st = pods[p].st \/ st \notin {"new", "mutating"}
      PROVE  StaysOrLeaves(p)
  BY <1>1, <1>3 DEF PodRecords
<1>4. ASSUME NEW q \in Pods, Submit(q) \/ AddTruststore(q), q # p
      PROVE  StaysOrLeaves(p)
  <2>1. \E new : pods' = [pods EXCEPT ![q] = new]
    BY <1>1, <1>4 DEF Submit, AddTruststore
  <2> QED
    BY <1>1, <1>4, <2>1
<1>5. ASSUME NEW q \in Pods, Unreachable(q) PROVE StaysOrLeaves(p)
  <2>1. pods' = [pods EXCEPT ![q].st = "gone"]
    BY <1>5 DEF Unreachable
  <2> QED
    BY <1>3, <2>1
<1>6. ASSUME NEW r \in Reviews, NEW q \in Pods, NEW op \in Operations, NEW dry \in BOOLEAN,
             Review(r, q, op, dry)
      PROVE  StaysOrLeaves(p)
  <2>1. pods' = pods \/ pods' = [pods EXCEPT ![q].st = "reviewing"]
    BY <1>6 DEF Review
  <2> QED
    BY <1>2, <1>3, <2>1
<1>7. ASSUME NEW r \in Reviews, HangUp(r) PROVE StaysOrLeaves(p)
  <2>1. pods' = pods \/ pods' = [pods EXCEPT ![reviews[r].pod].st = "gone"]
    BY <1>7 DEF HangUp
  <2> QED
    BY <1>2, <1>3, <2>1
<1>8. ASSUME NEW r \in Reviews, Settle(r) PROVE StaysOrLeaves(p)
  <2>1. PICK st \in NextPodStates(r) : pods' = [pods EXCEPT ![reviews[r].pod].st = st]
    BY <1>8 DEF Settle
  <2>2. reviews[r].pod = p => st = pods[p].st \/ st \notin {"new", "mutating"}
    BY <2>1 DEF NextPodStates
  <2> QED
    BY <1>3, <2>1, <2>2
<1>9. ASSUME \/ \E r \in Reviews : Handler(r)
             \/ ClusterStep \/ SecretWorker \/ DeleteWorker \/ CertWorker
             \/ ProcessStep \/ ShutdownStep \/ Restart \/ Rest
             \/ UNCHANGED vars
      PROVE  UNCHANGED pods
  BY <1>9 DEF Handler, ClusterStep, OwnerDeleted, CollectGarbage, Reparent, IssueTruststore, RotateCA,
              SecretWorker, DeleteWorker, CertWorker, ProcessStep, ShutdownStep, Restart, Rest, vars,
              clusterVars
<1>10. CASE RunReturns \/ Kill
  BY <1>1, <1>10 DEF RunReturns, Kill, Die, PodRecords
<1> QED
  BY <1>2, <1>4, <1>5, <1>6, <1>7, <1>8, <1>9, <1>10 DEF Next

LEMMA RootStays ==
    ASSUME [Next]_vars
    PROVE  UNCHANGED root \/ \E p \in Pods, o \in Owners : Reparent(p, o)
<1>1. CASE ClusterStep
  BY <1>1 DEF ClusterStep, OwnerDeleted, CollectGarbage, IssueTruststore, RotateCA
<1> QED
  BY <1>1 DEF Next, Submit, AddTruststore, Unreachable, Review, HangUp, Settle, Handler, SecretWorker,
     DeleteWorker, CertWorker, ProcessStep, ShutdownStep, RunReturns, Kill, Die, Restart, Rest, vars,
     clusterVars

\* what has no name yet
UnnamedInv ==
    \A p \in Pods : /\ Stage(p) = "open" => pods[p].ca = None
                    /\ Stage(p) # "closed" => pods[p].truststore = None

LEMMA NamesStep ==
    ASSUME TypeOK, UnnamedInv, [Next]_vars, NEW p \in Pods
    PROVE  \/ I!NamesCA(p) \/ I!NamesTruststore(p) \/ I!GivesUp(p)
           \/ I!RootMoves(p) \/ I!LeftAlone(p)
<1>1. /\ [q \in Pods |-> root[q].name][p] = root[p].name
      /\ [q \in Pods |-> pods[q].ca][p] = pods[p].ca
      /\ [q \in Pods |-> pods[q].truststore][p] = pods[p].truststore
      /\ [q \in Pods |-> Stage(q)][p] = Stage(p)
      /\ [q \in Pods |-> ~Unmoved(q)][p] = ~Unmoved(p)
  OBVIOUS
<1>2. /\ [q \in Pods |-> root'[q].name][p] = root'[p].name
      /\ [q \in Pods |-> pods'[q].ca][p] = pods'[p].ca
      /\ [q \in Pods |-> pods'[q].truststore][p] = pods'[p].truststore
      /\ [q \in Pods |-> Stage(q)'][p] = Stage(p)'
      /\ [q \in Pods |-> (~Unmoved(q))'][p] = (~Unmoved(p))'
  OBVIOUS
<1>3. pods \in [Pods -> PodRecords] /\ pods[p] \in PodRecords /\ root \in [Pods -> OwnerRefs]
  BY DEF TypeOK, ClusterTypeOK
<1>4. /\ UNCHANGED root => UNCHANGED Unmoved(p)
      /\ pods'[p].st = pods[p].st => UNCHANGED Stage(p)
  BY DEF Unmoved, Stage
<1>5. CASE Submit(p)
  <2>1. PICK name \in IF Manifest[p].enabled THEN WalkNames(p) ELSE {None} :
          pods' = [pods EXCEPT ![p].ca = name,
                               ![p].st = IF name # None /\ Manifest[p].jvm THEN "mutating" ELSE "submitted"]
    BY <1>5 DEF Submit
  <2>2. Stage(p) = "open" /\ UNCHANGED root
    BY <1>5 DEF Submit, Stage
  <2>3. /\ pods'[p].ca = name /\ pods'[p].truststore = pods[p].truststore
        /\ pods'[p].st = IF name # None /\ Manifest[p].jvm THEN "mutating" ELSE "submitted"
    BY <1>3, <2>1 DEF PodRecords
  <2>4. Stage(p)' \in {"half", "closed"} /\ (name = None => Stage(p)' = "closed")
    BY <2>3 DEF Stage
  <2>5. CASE name = root[p].name
    BY <1>1, <1>2, <1>4, <2>2, <2>3, <2>4, <2>5 DEF I!NamesCA
  <2>6. CASE name = None
    BY <1>1, <1>2, <1>4, <2>2, <2>3, <2>4, <2>6 DEF I!GivesUp, UnnamedInv
  <2> QED
    BY <2>1, <2>5, <2>6 DEF WalkNames
<1>6. CASE AddTruststore(p)
  <2>1. PICK name \in WalkNames(p) :
          pods' = [pods EXCEPT ![p].truststore = name, ![p].st = "submitted"]
    BY <1>6 DEF AddTruststore
  <2>2. Stage(p) = "half" /\ UNCHANGED root
    BY <1>6 DEF AddTruststore, Stage
  <2>3. pods'[p].truststore = name /\ pods'[p].ca = pods[p].ca /\ Stage(p)' = "closed"
    BY <1>3, <2>1 DEF PodRecords, Stage
  <2>4. CASE name = root[p].name
    BY <1>1, <1>2, <1>4, <2>2, <2>3, <2>4 DEF I!NamesTruststore
  <2>5. CASE name = None
    BY <1>1, <1>2, <1>4, <2>2, <2>3, <2>5 DEF I!GivesUp, UnnamedInv
  <2> QED
    BY <2>1, <2>4, <2>5 DEF WalkNames
<1>7. ASSUME StaysOrLeaves(p), UNCHANGED root
      PROVE  I!GivesUp(p) \/ I!LeftAlone(p)
  <2>1. CASE pods'[p].st = pods[p].st
    BY <1>1, <1>2, <1>4, <1>7, <2>1 DEF StaysOrLeaves, VolumesStay, I!LeftAlone
  <2>2. CASE pods'[p].st \notin {"new", "mutating"}
    <3>1. Stage(p)' = "closed"
      BY <2>2 DEF Stage
    <3> QED
      BY <1>1, <1>2, <1>4, <1>7, <3>1 DEF StaysOrLeaves, VolumesStay, I!GivesUp
  <2> QED
    BY <1>7, <2>1, <2>2 DEF StaysOrLeaves
<1>8. ASSUME NEW q \in Pods, NEW o \in Owners, Reparent(q, o)
      PROVE  I!RootMoves(p) \/ I!LeftAlone(p)
  <2>1. UNCHANGED pods /\ o # root[q] /\ root[q] = Manifest[q].root /\ root' = [root EXCEPT ![q] = o]
    BY <1>8 DEF Reparent
  <2>2. CASE q = p
    <3>1. ~Unmoved(p)'
      BY <1>3, <2>1, <2>2 DEF Unmoved
    <3> QED
      BY <1>1, <1>2, <1>4, <2>1, <3>1 DEF I!RootMoves
  <2>3. CASE q # p
    <3>1. root'[p] = root[p] /\ UNCHANGED Unmoved(p)
      BY <1>3, <2>1, <2>3 DEF Unmoved
    <3> QED
      BY <1>1, <1>2, <1>4, <2>1, <3>1 DEF I!LeftAlone
  <2> QED
    BY <2>2, <2>3
<1> QED
  BY <1>5, <1>6, <1>7, <1>8, OthersStay, RootStays

LEMMA UnnamedStep == TypeOK /\ UnnamedInv /\ [Next]_vars => UnnamedInv'
<1> SUFFICES ASSUME TypeOK, UnnamedInv, [Next]_vars, NEW p \in Pods
             PROVE  /\ Stage(p)' = "open" => pods'[p].ca = None
                    /\ Stage(p)' # "closed" => pods'[p].truststore = None
  BY DEF UnnamedInv
<1>1. /\ Stage(p) = "open" => pods[p].ca = None
      /\ Stage(p) # "closed" => pods[p].truststore = None
  BY DEF UnnamedInv
<1>2. I!NamesCA(p) \/ I!NamesTruststore(p) \/ I!GivesUp(p) \/ I!RootMoves(p) \/ I!LeftAlone(p)
  BY NamesStep
<1> QED
  BY <1>1, <1>2 DEF I!NamesCA, I!NamesTruststore, I!GivesUp, I!RootMoves, I!LeftAlone

(***************************************************************************)
(* Cain implements Injection: with any pods, faults, moves and restarts,   *)
(* each volume is named once and after the root of that moment.            *)
(***************************************************************************)
THEOREM KeepsNamesEver == Spec => KeepsNames
<1>1. Init => I!Init /\ UnnamedInv
  <2> SUFFICES ASSUME Init PROVE I!Init /\ UnnamedInv
    OBVIOUS
  <2>1. /\ pods = [p \in Pods |-> [st |-> "new", ca |-> None, truststore |-> None]]
        /\ root = [p \in Pods |-> Manifest[p].root]
    BY DEF Init, ClusterInit
  <2>2. ASSUME NEW p \in Pods
        PROVE  /\ pods[p].ca = None /\ pods[p].truststore = None
               /\ Stage(p) = "open" /\ (~Unmoved(p)) = FALSE
    BY <2>1 DEF Stage, Unmoved
  <2> QED
    BY <2>2 DEF I!Init, UnnamedInv
<1>2. TypeOK /\ UnnamedInv /\ [Next]_vars => [I!Next]_(I!names)
  BY NamesStep DEF I!Next
<1> QED
  BY <1>1, <1>2, UnnamedStep, TypeCorrect, PTL DEF Spec, KeepsNames, I!Spec

-----------------------------------------------------------------------------
(***************************************************************************)
(* So what InjectionProofs shows of Injection holds of Cain's pods.        *)
(***************************************************************************)
J == INSTANCE InjectionProofs WITH
        root <- [p \in Pods |-> root[p].name],
        ca <- [p \in Pods |-> pods[p].ca],
        truststore <- [p \in Pods |-> pods[p].truststore],
        stage <- [p \in Pods |-> Stage(p)],
        moved <- [p \in Pods |-> ~Unmoved(p)]

LEMMA SameInjection == KeepsNames => J!Spec
<1>1. I!Init => J!Init
  BY DEF I!Init, J!Init
<1>2. [I!Next]_(I!names) => [J!Next]_(J!names)
  BY DEF I!Next, J!Next, I!names, J!names, I!NamesCA, J!NamesCA, I!NamesTruststore, J!NamesTruststore,
         I!GivesUp, J!GivesUp, I!RootMoves, J!RootMoves, I!LeftAlone, J!LeftAlone
<1> QED
  BY <1>1, <1>2, PTL DEF KeepsNames, I!Spec, J!Spec

(***************************************************************************)
(* The truststore's volume of any pod, at any stage, is named like its     *)
(* CA's unless somebody changed its owners in between or since.            *)
(***************************************************************************)
THEOREM CainNamesAgree == Spec => [](\A p \in Pods : pods[p].truststore \in {None, pods[p].ca} \/ ~Unmoved(p))
<1>1. J!NamesAgree => \A p \in Pods : pods[p].truststore \in {None, pods[p].ca} \/ ~Unmoved(p)
  BY DEF J!NamesAgree
<1> QED
  BY <1>1, J!NamesAgreeEver, SameInjection, KeepsNamesEver, PTL

(***************************************************************************)
(* No step of any process, fault or restart gives a volume another name.   *)
(***************************************************************************)
THEOREM CainNamesOnce ==
    Spec => [][\A p \in Pods : /\ pods[p].ca # None => pods'[p].ca = pods[p].ca
                               /\ pods[p].truststore # None => pods'[p].truststore = pods[p].truststore]_vars
<1> DEFINE cas == [p \in Pods |-> pods[p].ca]
           tss == [p \in Pods |-> pods[p].truststore]
           Settled == \A p \in Pods : /\ cas[p] # None => cas'[p] = cas[p]
                                      /\ tss[p] # None => tss'[p] = tss[p]
           Kept == \A p \in Pods : /\ pods[p].ca # None => pods'[p].ca = pods[p].ca
                                   /\ pods[p].truststore # None => pods'[p].truststore = pods[p].truststore
<1>1. [Settled]_(J!names) => [Kept]_vars
  <2> SUFFICES ASSUME [Settled]_(J!names), NEW p \in Pods
               PROVE  /\ pods[p].ca # None => pods'[p].ca = pods[p].ca
                      /\ pods[p].truststore # None => pods'[p].truststore = pods[p].truststore
    OBVIOUS
  <2>1. /\ cas[p] = pods[p].ca /\ cas'[p] = pods'[p].ca
        /\ tss[p] = pods[p].truststore /\ tss'[p] = pods'[p].truststore
    OBVIOUS
  <2>2. CASE Settled
    BY <2>1, <2>2
  <2>3. CASE UNCHANGED <<cas, tss>>
    BY <2>1, <2>3
  <2> QED
    BY <2>2, <2>3 DEF J!names
<1>2. J!NamedOnce => [][Settled]_(J!names)
  BY PTL DEF J!NamedOnce
<1> QED
  BY <1>1, <1>2, J!NamedOnceEver, SameInjection, KeepsNamesEver, PTL
=============================================================================
