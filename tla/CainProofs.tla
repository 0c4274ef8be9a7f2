----------------------------- MODULE CainProofs -----------------------------
(***************************************************************************)
(* Safety of Cain for every set of pods, names, reviews and faults, and    *)
(* any number of restarts.                                                 *)
(***************************************************************************)
EXTENDS CainProperties, TLAPS

USE DEF ObjectIds, OwnerRefs, Objects, Data

LEMMA NamesAreIds ==
    \A ns \in Namespaces, base \in Names :
        /\ SecretName(ns, base) \in ObjectIds
        /\ TruststorePasswordSecretName(ns, base) \in ObjectIds
        /\ CertificateName(ns, base) \in ObjectIds
BY DEF SecretName, TruststorePasswordSecretName, CertificateName

LEMMA ManifestType ==
    \A p \in Pods : /\ Manifest[p] \in Manifests
                    /\ Manifest[p].ns \in Namespaces
                    /\ Manifest[p].name \in Names
                    /\ Manifest[p].root \in OwnerRefs
                    /\ Manifest[p].root.name \in Names
                    /\ Manifest[p].root.uid \in Uids \cup {NoUid}
                    /\ Manifest[p].enabled \in BOOLEAN
                    /\ Manifest[p].jvm \in BOOLEAN
                    /\ Manifest[p].password \in Passwords
BY ClusterAssumption DEF Manifests

(***************************************************************************)
(* The initial state is well typed.                                        *)
(***************************************************************************)
LEMMA TypeInit == Init => TypeOK
<1> SUFFICES ASSUME Init PROVE TypeOK
  OBVIOUS
<1>1. ClusterTypeOK
  BY ClusterAssumption, ManifestType DEF Init, ClusterInit, ClusterTypeOK, PodRecords, PodStates, TruststoreIds
<1>2. RuntimeTypeOK
  BY RuntimeAssumption DEF Init, ClusterInit, RuntimeInit, RuntimeTypeOK, Channels
<1>3. CreatorTypeOK /\ DeleterTypeOK /\ CertCreatorTypeOK
  BY DEF Init, CreatorInit, DeleterInit, CertCreatorInit, CreatorIdle, DeleterIdle,
         CertCreatorIdle, CreatorTypeOK, DeleterTypeOK, CertCreatorTypeOK
<1>4. ValidatorTypeOK
  BY DEF Init, ValidatorInit, ValidatorTypeOK, ReviewRecords, ReviewPcs, Answers
<1> QED
  BY <1>1, <1>2, <1>3, <1>4 DEF TypeOK

(***************************************************************************)
(* What handlers and workers send is well typed.                           *)
(***************************************************************************)
LEMMA RequestTypes ==
    ASSUME TypeOK
    PROVE  /\ \A r \in Reviews : reviews[r].pc # "idle" => DeletedSecret(r) \in ObjectIds
           /\ \A r \in Reviews : reviews[r].pc \in {"sendSecret", "sendCert"} =>
                 SecretRequest(r) \in CreationRequests /\ CertInfo(r) \in Infos
           /\ \A info \in Infos : /\ PasswordRequest(info) \in CreationRequests
                                  /\ CertificateId(info) \in ObjectIds
                                  /\ NewCertificate(info) \in Objects
           /\ \A req \in CreationRequests : /\ NewSecret(req) \in Objects
                                            /\ req.id \in ObjectIds
                                            /\ req.id.ns \in Namespaces
BY NamesAreIds, ManifestType
   DEF TypeOK, RuntimeTypeOK, ValidatorTypeOK, DeletedSecret, SecretRequest, CertInfo, PodOf, CreationRequests,
       Infos, PasswordRequest, CertificateId, NewCertificate, NewSecret, SecretName,
       TruststorePasswordSecretName, CertificateName

LEMMA StoreType ==
    ASSUME objects \in [ObjectIds -> Objects \cup {None}], NEW i \in ObjectIds, NEW o \in Objects
    PROVE  /\ Stores(i, o) \/ MayStore(i, o) => objects' \in [ObjectIds -> Objects \cup {None}]
           /\ Removes(i) \/ MayRemove(i) => objects' \in [ObjectIds -> Objects \cup {None}]
BY DEF Stores, MayStore, Removes, MayRemove

LEMMA CountType ==
    ASSUME metrics \in [Series -> Nat], NEW c \in Counters, NEW ns \in Namespaces,
           NEW k \in {"Secret", "Certificate"}, Count(c, ns, k)
    PROVE  metrics' \in [Series -> Nat]
BY DEF Count, Series

(***************************************************************************)
(* A step that leaves a component's variables alone leaves it well typed.  *)
(***************************************************************************)
LEMMA TypeFrames ==
    ASSUME TypeOK
    PROVE  /\ UNCHANGED clusterVars => ClusterTypeOK'
           /\ UNCHANGED runtimeVars => RuntimeTypeOK'
           /\ UNCHANGED creatorVars => CreatorTypeOK'
           /\ UNCHANGED deleter => DeleterTypeOK'
           /\ UNCHANGED certCreator => CertCreatorTypeOK'
           /\ UNCHANGED reviews => ValidatorTypeOK'
<1>1. UNCHANGED clusterVars => ClusterTypeOK'
  BY DEF TypeOK, ClusterTypeOK, clusterVars
<1>2. UNCHANGED runtimeVars => RuntimeTypeOK'
  BY DEF TypeOK, RuntimeTypeOK, runtimeVars
<1>3. UNCHANGED creatorVars => CreatorTypeOK'
  BY DEF TypeOK, CreatorTypeOK, creatorVars
<1>4. UNCHANGED deleter => DeleterTypeOK'
  BY DEF TypeOK, DeleterTypeOK
<1>5. UNCHANGED certCreator => CertCreatorTypeOK'
  BY DEF TypeOK, CertCreatorTypeOK
<1>6. UNCHANGED reviews => ValidatorTypeOK'
  BY DEF TypeOK, ValidatorTypeOK
<1> QED
  BY <1>1, <1>2, <1>3, <1>4, <1>5, <1>6

LEMMA WaitingType ==
    ASSUME TypeOK, NEW r \in Reviews, reviews' = [reviews EXCEPT ![r].waiting = FALSE]
    PROVE  ValidatorTypeOK'
<1>1. \A s \in Reviews : reviews[s] \in ReviewRecords
  BY DEF TypeOK, ValidatorTypeOK
<1>2. \A s \in Reviews : /\ reviews'[s] \in ReviewRecords
                        /\ reviews'[s].pc = reviews[s].pc
                        /\ reviews'[s].pod = reviews[s].pod
                        /\ reviews'[s].op = reviews[s].op
                        /\ reviews'[s].root = reviews[s].root
  BY <1>1 DEF TypeOK, ValidatorTypeOK, ReviewRecords
<1> QED
  BY <1>2 DEF TypeOK, ValidatorTypeOK

LEMMA GotoType ==
    ASSUME TypeOK, NEW r \in Reviews, reviews[r].pc # "idle", NEW pc \in ReviewPcs,
           pc \in {"sendSecret", "sendCert"} => reviews[r].root \in OwnerRefs,
           Goto(r, pc)
    PROVE  ValidatorTypeOK'
<1>1. \A s \in Reviews : reviews[s] \in ReviewRecords
  BY DEF TypeOK, ValidatorTypeOK
<1>2. \A s \in Reviews : /\ reviews'[s] \in ReviewRecords
                        /\ s # r => reviews'[s] = reviews[s]
  BY <1>1 DEF Goto, TypeOK, ValidatorTypeOK, ReviewRecords
<1>3. /\ reviews'[r].pc = pc
      /\ reviews'[r].pod = reviews[r].pod
      /\ reviews'[r].op = reviews[r].op
      /\ reviews'[r].root = reviews[r].root
  BY <1>1 DEF Goto, TypeOK, ValidatorTypeOK, ReviewRecords
<1>4. reviews' \in [Reviews -> ReviewRecords]
  <2>1. reviews \in [Reviews -> ReviewRecords]
    BY DEF TypeOK, ValidatorTypeOK
  <2>2. [reviews[r] EXCEPT !.pc = pc] \in ReviewRecords
    BY <1>1 DEF ReviewRecords
  <2> QED
    BY <2>1, <2>2 DEF Goto
<1> QED
  BY <1>2, <1>3, <1>4 DEF TypeOK, ValidatorTypeOK

LEMMA EnvironmentType ==
    TypeOK /\ ( \/ \E p \in Pods : Submit(p) \/ AddTruststore(p) \/ Unreachable(p)
                \/ \E r \in Reviews, p \in Pods, op \in Operations, dry \in BOOLEAN : Review(r, p, op, dry)
                \/ \E r \in Reviews : HangUp(r) \/ Settle(r)
                \/ ClusterStep ) => TypeOK'
<1> SUFFICES ASSUME TypeOK,
                    \/ \E p \in Pods : Submit(p) \/ AddTruststore(p) \/ Unreachable(p)
                    \/ \E r \in Reviews, p \in Pods, op \in Operations, dry \in BOOLEAN : Review(r, p, op, dry)
                    \/ \E r \in Reviews : HangUp(r) \/ Settle(r)
                    \/ ClusterStep
             PROVE  TypeOK'
  OBVIOUS
<1>1. ASSUME NEW p \in Pods, Submit(p) PROVE TypeOK'
  <2>1. WalkNames(p) \subseteq Names \cup {None}
    BY DEF WalkNames, TypeOK, ClusterTypeOK
  <2>2. PICK name \in Names \cup {None}, st \in PodStates :
           pods' = [pods EXCEPT ![p].ca = name, ![p].st = st]
    BY <1>1, <2>1 DEF Submit, PodStates
  <2>3. ClusterTypeOK'
    BY <1>1, <2>2 DEF Submit, TypeOK, ClusterTypeOK, PodRecords
  <2> QED
    BY <1>1, <2>3, TypeFrames DEF Submit, TypeOK
<1>7. ASSUME NEW p \in Pods, AddTruststore(p) PROVE TypeOK'
  <2>1. WalkNames(p) \subseteq Names \cup {None}
    BY DEF WalkNames, TypeOK, ClusterTypeOK
  <2>2. ClusterTypeOK'
    BY <1>7, <2>1 DEF AddTruststore, TypeOK, ClusterTypeOK, PodRecords, PodStates
  <2> QED
    BY <1>7, <2>2, TypeFrames DEF AddTruststore, TypeOK
<1>2. ASSUME NEW p \in Pods, Unreachable(p) PROVE TypeOK'
  <2>1. ClusterTypeOK'
    BY <1>2 DEF Unreachable, TypeOK, ClusterTypeOK, PodRecords, PodStates
  <2> QED
    BY <1>2, <2>1, TypeFrames DEF Unreachable, TypeOK
<1>3. ASSUME NEW r \in Reviews, NEW p \in Pods, NEW op \in Operations, NEW dry \in BOOLEAN,
             Review(r, p, op, dry)
      PROVE  TypeOK'
  <2>1. ValidatorTypeOK'
    BY <1>3 DEF Review, TypeOK, ValidatorTypeOK, ReviewRecords, ReviewPcs, Answers
  <2>2. pods' = [pods EXCEPT ![p].st = "reviewing"] \/ pods' = pods
    BY <1>3 DEF Review
  <2>3. UNCHANGED <<objects, truststores, caSecret, root, dead>>
    BY <1>3 DEF Review
  <2>4. ClusterTypeOK'
    BY <2>2, <2>3 DEF TypeOK, ClusterTypeOK, PodRecords, PodStates
  <2> QED
    BY <1>3, <2>1, <2>4, TypeFrames DEF Review, TypeOK
<1>4. ASSUME NEW r \in Reviews, HangUp(r) PROVE TypeOK'
  <2>1. ValidatorTypeOK'
    BY <1>4, WaitingType DEF HangUp
  <2>2. ClusterTypeOK'
    BY <1>4 DEF HangUp, TypeOK, ClusterTypeOK, PodRecords, PodStates
  <2> QED
    BY <1>4, <2>1, <2>2, TypeFrames DEF HangUp, TypeOK
<1>5. ASSUME NEW r \in Reviews, Settle(r) PROVE TypeOK'
  <2>5. reviews' = [reviews EXCEPT ![r].waiting = FALSE]
    BY <1>5 DEF Settle
  <2>1. ValidatorTypeOK'
    BY <2>5, WaitingType
  <2>2. reviews[r].pod \in Pods
    BY <1>5 DEF Settle, TypeOK, ValidatorTypeOK, Answers
  <2>3. NextPodStates(r) \subseteq PodStates
    BY <2>2 DEF NextPodStates, PodStates, TypeOK, ClusterTypeOK, PodRecords
  <2>6. PICK st \in PodStates : pods' = [pods EXCEPT ![reviews[r].pod].st = st]
    BY <1>5, <2>3 DEF Settle
  <2>7. UNCHANGED <<objects, truststores, caSecret, root, dead>>
    BY <1>5 DEF Settle
  <2>4. ClusterTypeOK'
    BY <2>2, <2>6, <2>7 DEF TypeOK, ClusterTypeOK, PodRecords
  <2> QED
    BY <1>5, <2>1, <2>4, TypeFrames DEF Settle, TypeOK
<1>6. ASSUME ClusterStep PROVE TypeOK'
  <2>1. ClusterTypeOK'
    <3>1. ASSUME NEW u \in Uids, OwnerDeleted(u) PROVE ClusterTypeOK'
      BY <3>1 DEF OwnerDeleted, TypeOK, ClusterTypeOK
    <3>2. ASSUME NEW i \in ObjectIds, CollectGarbage(i) PROVE ClusterTypeOK'
      BY <3>2 DEF CollectGarbage, Removes, TypeOK, ClusterTypeOK
    <3>3. ASSUME NEW p \in Pods, NEW o \in Owners, Reparent(p, o) PROVE ClusterTypeOK'
      BY <3>3, ClusterAssumption DEF Reparent, TypeOK, ClusterTypeOK
    <3>4. ASSUME NEW t \in TruststoreIds, IssueTruststore(t) PROVE ClusterTypeOK'
      <4>1. PICK i \in ObjectIds : Exists(i) /\ truststores' = [truststores EXCEPT ![t] = objects[i].data]
        BY <3>4, NamesAreIds DEF IssueTruststore, TruststoreIds
      <4>2. objects[i].data \in Data
        BY <4>1 DEF Exists, TypeOK, ClusterTypeOK
      <4> QED
        BY <3>4, <4>1, <4>2 DEF IssueTruststore, TypeOK, ClusterTypeOK
    <3>5. ASSUME RotateCA PROVE ClusterTypeOK'
      BY <3>5 DEF RotateCA, TypeOK, ClusterTypeOK
    <3> QED
      BY <1>6, <3>1, <3>2, <3>3, <3>4, <3>5 DEF ClusterStep
  <2> QED
    BY <1>6, <2>1, TypeFrames DEF ClusterStep, TypeOK
<1> QED
  BY <1>1, <1>2, <1>3, <1>4, <1>5, <1>6, <1>7

LEMMA HandlerType == \A r \in Reviews : TypeOK /\ Handler(r) => TypeOK'
<1> SUFFICES ASSUME NEW r \in Reviews, TypeOK, HandlerStep(r),
                    UNCHANGED <<clusterVars, process, restarts, ctx, server, bundle, metrics, dropped>>
             PROVE  TypeOK'
  BY DEF Handler
<1> USE DEF At
<1>1. /\ ClusterTypeOK'
      /\ closed' \subseteq Channels => RuntimeTypeOK'
      /\ UNCHANGED creator => CreatorTypeOK'
  BY TypeFrames DEF creatorVars, TypeOK, RuntimeTypeOK
<1>2. UNCHANGED closed => RuntimeTypeOK'
  BY <1>1 DEF TypeOK, RuntimeTypeOK
<1>3. ASSUME CloseSecret(r) PROVE TypeOK'
  <2>1. ValidatorTypeOK'
    BY <1>3, GotoType DEF CloseSecret, ReviewPcs
  <2> QED
    BY <1>1, <1>3, <2>1, TypeFrames DEF CloseSecret, TypeOK, RuntimeTypeOK, Channels
<1>4. ASSUME ClosePanics(r) PROVE TypeOK'
  <2>1. ValidatorTypeOK'
    BY <1>4, GotoType DEF ClosePanics, ReviewPcs, Answers
  <2> QED
    BY <1>1, <1>2, <1>4, <2>1, TypeFrames DEF ClosePanics, TypeOK
<1>5. ASSUME CloseCert(r) PROVE TypeOK'
  <2>1. ValidatorTypeOK'
    BY <1>5, GotoType DEF CloseCert, ReviewPcs
  <2> QED
    BY <1>1, <1>5, <2>1, TypeFrames DEF CloseCert, TypeOK, RuntimeTypeOK, Channels
<1>6. ASSUME CloseDelete(r) PROVE TypeOK'
  <2>1. ValidatorTypeOK'
    BY <1>6, GotoType DEF CloseDelete, ReviewPcs, Answers
  <2> QED
    BY <1>1, <1>6, <2>1, TypeFrames DEF CloseDelete, TypeOK, RuntimeTypeOK, Channels
<1>7. ASSUME Dispatch(r) PROVE TypeOK'
  <2>1. PICK pc \in {"allowed", "sendDelete", "resolve", "failed"} : Goto(r, pc)
    BY <1>7 DEF Dispatch
  <2>2. ValidatorTypeOK'
    BY <1>7, <2>1, GotoType DEF Dispatch, ReviewPcs, Answers
  <2> QED
    BY <1>1, <1>2, <1>7, <2>2, TypeFrames DEF Dispatch, TypeOK
<1>8. ASSUME SendDelete(r) PROVE TypeOK'
  <2>1. ValidatorTypeOK'
    BY <1>8, GotoType DEF SendDelete, ReviewPcs, Answers
  <2>2. DeletedSecret(r) \in ObjectIds
    BY <1>8, RequestTypes DEF SendDelete
  <2>3. DeleterTypeOK'
    BY <1>8, <2>2 DEF SendDelete, DeleterReceives, DeleterTypeOK
  <2> QED
    BY <1>1, <1>2, <1>8, <2>1, <2>3, TypeFrames DEF SendDelete, TypeOK
<1>9. ASSUME Resolve(r) PROVE TypeOK'
  <2>1. reviews[r].pod \in Pods /\ root[reviews[r].pod] \in OwnerRefs
    BY <1>9 DEF Resolve, TypeOK, ValidatorTypeOK, ClusterTypeOK
  <2>2. PICK pc \in {"allowed", "sendSecret"} :
           reviews' = [reviews EXCEPT ![r].root = root[reviews[r].pod], ![r].pc = pc]
    BY <1>9 DEF Resolve
  <2>3. \A s \in Reviews : reviews[s] \in ReviewRecords
    BY DEF TypeOK, ValidatorTypeOK
  <2>4. \A s \in Reviews : reviews'[s] \in ReviewRecords /\ (s # r => reviews'[s] = reviews[s])
    <3>1. reviews' = [reviews EXCEPT ![r] = [reviews[r] EXCEPT !.root = root[reviews[r].pod], !.pc = pc]]
      BY <2>2
    <3>2. [reviews[r] EXCEPT !.root = root[reviews[r].pod], !.pc = pc] \in ReviewRecords
      BY <2>1, <2>3 DEF ReviewRecords, ReviewPcs, Answers
    <3>3. reviews \in [Reviews -> ReviewRecords]
      BY DEF TypeOK, ValidatorTypeOK
    <3> HIDE DEF ReviewRecords
    <3> QED
      BY <3>1, <3>2, <3>3
  <2>5. /\ reviews'[r].pod = reviews[r].pod
        /\ reviews'[r].op = reviews[r].op
        /\ reviews'[r].root = root[reviews[r].pod]
    BY <2>2, <2>3 DEF TypeOK, ValidatorTypeOK, ReviewRecords
  <2>6. reviews' \in [Reviews -> ReviewRecords]
    BY <2>2, <2>4 DEF TypeOK, ValidatorTypeOK
  <2>7. ValidatorTypeOK'
    BY <1>9, <2>1, <2>4, <2>5, <2>6 DEF Resolve, TypeOK, ValidatorTypeOK
  <2> QED
    BY <1>1, <1>2, <1>9, <2>7, TypeFrames DEF Resolve, TypeOK
<1>10. ASSUME ResolveFails(r) PROVE TypeOK'
  <2>1. ValidatorTypeOK'
    BY <1>10, GotoType DEF ResolveFails, ReviewPcs, Answers
  <2> QED
    BY <1>1, <1>2, <1>10, <2>1, TypeFrames DEF ResolveFails, TypeOK
<1>11. ASSUME SendSecret(r) PROVE TypeOK'
  <2>1. reviews[r].root \in OwnerRefs
    BY <1>11 DEF SendSecret, TypeOK, ValidatorTypeOK
  <2>2. PICK pc \in {"sendCert", "allowed"} : Goto(r, pc)
    BY <1>11 DEF SendSecret
  <2>3. ValidatorTypeOK'
    BY <1>11, <2>1, <2>2, GotoType DEF SendSecret, ReviewPcs, Answers
  <2>4. SecretRequest(r) \in CreationRequests
    BY <1>11, RequestTypes DEF SendSecret
  <2>5. CreatorTypeOK'
    BY <1>11, <2>4 DEF SendSecret, CreatorReceives, CreatorTypeOK, TypeOK
  <2> QED
    BY <1>1, <1>2, <1>11, <2>3, <2>5, TypeFrames DEF SendSecret, TypeOK
<1>12. ASSUME SendCert(r) PROVE TypeOK'
  <2>1. ValidatorTypeOK'
    BY <1>12, GotoType DEF SendCert, ReviewPcs, Answers
  <2>2. CertInfo(r) \in Infos
    BY <1>12, RequestTypes DEF SendCert
  <2>3. CertCreatorTypeOK'
    BY <1>12, <2>2 DEF SendCert, CertCreatorReceives, CertCreatorTypeOK
  <2> QED
    BY <1>1, <1>2, <1>12, <2>1, <2>3, TypeFrames DEF SendCert, TypeOK
<1>13. ASSUME HandlerPanics(r) PROVE TypeOK'
  <2>1. ValidatorTypeOK'
    BY <1>13, GotoType DEF HandlerPanics, ReviewPcs, Answers
  <2> QED
    BY <1>1, <1>2, <1>13, <2>1, TypeFrames DEF HandlerPanics, TypeOK
<1> QED
  BY <1>3, <1>4, <1>5, <1>6, <1>7, <1>8, <1>9, <1>10, <1>11, <1>12, <1>13 DEF HandlerStep

LEMMA SecretWorkerType == TypeOK /\ SecretWorker => TypeOK'
<1> SUFFICES ASSUME TypeOK, CreatorStep,
                    UNCHANGED <<truststores, caSecret, pods, root, dead, process, restarts, ctx,
                                server, closed, bundle, deleter, certCreator, reviews>>
             PROVE  TypeOK'
  BY DEF SecretWorker
<1>1. DeleterTypeOK' /\ CertCreatorTypeOK' /\ ValidatorTypeOK'
  BY TypeFrames
<1>2. objects' \in [ObjectIds -> Objects \cup {None}] => ClusterTypeOK'
  BY DEF TypeOK, ClusterTypeOK
<1>3. metrics' \in [Series -> Nat] => RuntimeTypeOK'
  BY DEF TypeOK, RuntimeTypeOK
<1>4. creator.pc = "call" => /\ creator.req \in CreationRequests
                             /\ creator.req.id \in ObjectIds
                             /\ creator.req.id.ns \in Namespaces
                             /\ NewSecret(creator.req) \in Objects
  BY RequestTypes DEF TypeOK, CreatorTypeOK
<1>5. /\ objects \in [ObjectIds -> Objects \cup {None}]
      /\ metrics \in [Series -> Nat]
      /\ dropped \subseteq ObjectIds
  BY DEF TypeOK, ClusterTypeOK, RuntimeTypeOK, CreatorTypeOK
<1>6. creator' = CreatorIdle /\ dropped' \subseteq ObjectIds => CreatorTypeOK'
  BY DEF CreatorTypeOK, CreatorIdle
<1>7. CASE CreateSucceeds
  BY <1>1, <1>2, <1>3, <1>4, <1>5, <1>6, <1>7, StoreType, CountType DEF CreateSucceeds, TypeOK, Counters
<1>8. CASE CreateFindsSecret
  BY <1>1, <1>2, <1>3, <1>4, <1>5, <1>6, <1>8, CountType DEF CreateFindsSecret, TypeOK, Counters
<1>9. CASE CreateFails
  BY <1>1, <1>2, <1>3, <1>4, <1>5, <1>6, <1>9, StoreType, CountType DEF CreateFails, TypeOK, Counters
<1>10. CASE CreatorExits
  <2>1. CreatorTypeOK'
    BY <1>10 DEF CreatorExits, TypeOK, CreatorTypeOK
  <2> QED
    BY <1>1, <1>2, <1>3, <1>5, <1>10, <2>1 DEF CreatorExits, TypeOK
<1> QED
  BY <1>7, <1>8, <1>9, <1>10 DEF CreatorStep

LEMMA DeleteWorkerType == TypeOK /\ DeleteWorker => TypeOK'
<1> SUFFICES ASSUME TypeOK, DeleterStep,
                    UNCHANGED <<truststores, caSecret, pods, root, dead, process, restarts, ctx,
                                server, closed, bundle, creatorVars, certCreator, reviews>>
             PROVE  TypeOK'
  BY DEF DeleteWorker
<1>1. CreatorTypeOK' /\ CertCreatorTypeOK' /\ ValidatorTypeOK'
  BY TypeFrames
<1>2. objects' \in [ObjectIds -> Objects \cup {None}] => ClusterTypeOK'
  BY DEF TypeOK, ClusterTypeOK
<1>3. metrics' \in [Series -> Nat] => RuntimeTypeOK'
  BY DEF TypeOK, RuntimeTypeOK
<1>4. deleter.pc = "call" => deleter.id \in ObjectIds /\ deleter.id.ns \in Namespaces
  BY DEF TypeOK, DeleterTypeOK
<1>5. objects \in [ObjectIds -> Objects \cup {None}] /\ metrics \in [Series -> Nat]
  BY DEF TypeOK, ClusterTypeOK, RuntimeTypeOK
<1>6. deleter' = DeleterIdle => DeleterTypeOK'
  BY DEF DeleterTypeOK, DeleterIdle
<1>7. CASE DeleteSucceeds
  <2>1. objects' \in [ObjectIds -> Objects \cup {None}]
    BY <1>4, <1>5, <1>7 DEF DeleteSucceeds, Removes
  <2> QED
    BY <1>1, <1>2, <1>3, <1>4, <1>5, <1>6, <1>7, <2>1, CountType DEF DeleteSucceeds, TypeOK, Counters
<1>8. CASE DeleteFindsNothing
  BY <1>1, <1>2, <1>3, <1>4, <1>5, <1>6, <1>8, CountType DEF DeleteFindsNothing, TypeOK, Counters
<1>9. CASE DeleteRefused
  BY <1>1, <1>2, <1>3, <1>4, <1>5, <1>6, <1>9, CountType DEF DeleteRefused, TypeOK, Counters
<1>10. CASE DeleteInterrupted
  <2>1. objects' \in [ObjectIds -> Objects \cup {None}]
    BY <1>4, <1>5, <1>10 DEF DeleteInterrupted, MayRemove, Removes
  <2> QED
    BY <1>1, <1>2, <1>3, <1>4, <1>5, <1>6, <1>10, <2>1, CountType DEF DeleteInterrupted, TypeOK, Counters
<1>11. CASE DeleterExits
  <2>1. DeleterTypeOK'
    BY <1>11 DEF DeleterExits, TypeOK, DeleterTypeOK
  <2> QED
    BY <1>1, <1>2, <1>3, <1>5, <1>11, <2>1 DEF DeleterExits, TypeOK
<1> QED
  BY <1>7, <1>8, <1>9, <1>10, <1>11 DEF DeleterStep

LEMMA CertWorkerType == TypeOK /\ CertWorker => TypeOK'
<1> SUFFICES ASSUME TypeOK, CertCreatorStep,
                    UNCHANGED <<truststores, caSecret, pods, root, dead, process, restarts,
                                server, closed, bundle, deleter, reviews>>
             PROVE  TypeOK'
  BY DEF CertWorker
<1>1. DeleterTypeOK' /\ ValidatorTypeOK'
  BY TypeFrames
<1>2. objects' \in [ObjectIds -> Objects \cup {None}] => ClusterTypeOK'
  BY DEF TypeOK, ClusterTypeOK
<1>3. metrics' \in [Series -> Nat] /\ ctx' \in {"live", "signalled", "failed"} => RuntimeTypeOK'
  BY DEF TypeOK, RuntimeTypeOK
<1>4. certCreator.pc \in {"send", "call"} =>
          /\ certCreator.info \in Infos
          /\ certCreator.info.ns \in Namespaces
          /\ PasswordRequest(certCreator.info) \in CreationRequests
          /\ PasswordRequest(certCreator.info).id \in ObjectIds
          /\ CertificateId(certCreator.info) \in ObjectIds
          /\ NewCertificate(certCreator.info) \in Objects
  BY RequestTypes DEF TypeOK, CertCreatorTypeOK, Infos
<1>5. /\ objects \in [ObjectIds -> Objects \cup {None}]
      /\ metrics \in [Series -> Nat]
      /\ ctx \in {"live", "signalled", "failed"}
      /\ dropped \subseteq ObjectIds
  BY DEF TypeOK, ClusterTypeOK, RuntimeTypeOK, CreatorTypeOK
<1>6. certCreator' = CertCreatorIdle => CertCreatorTypeOK'
  BY DEF CertCreatorTypeOK, CertCreatorIdle
<1>7. creator' = creator /\ dropped' \subseteq ObjectIds => CreatorTypeOK'
  BY DEF TypeOK, CreatorTypeOK
<1>8. CASE SendPassword
  <2>1. CreatorTypeOK'
    BY <1>4, <1>5, <1>8 DEF SendPassword, CreatorReceives, CreatorTypeOK
  <2>2. CertCreatorTypeOK'
    BY <1>4, <1>8 DEF SendPassword, TypeOK, CertCreatorTypeOK
  <2> QED
    BY <1>1, <1>2, <1>3, <1>5, <1>8, <2>1, <2>2 DEF SendPassword, TypeOK
<1>9. CASE SendPanics
  <2>1. CertCreatorTypeOK'
    BY <1>9 DEF SendPanics, CertCreatorTypeOK
  <2> QED
    BY <1>1, <1>2, <1>3, <1>4, <1>5, <1>7, <1>9, <2>1 DEF SendPanics, CancelOnError, TypeOK
<1>10. CASE CertificateCreated
  BY <1>1, <1>2, <1>3, <1>4, <1>5, <1>6, <1>7, <1>10, StoreType, CountType
     DEF CertificateCreated, TypeOK, Counters
<1>11. CASE CertificateFound
  BY <1>1, <1>2, <1>3, <1>4, <1>5, <1>6, <1>7, <1>11, CountType DEF CertificateFound, TypeOK, Counters
<1>12. CASE CertificateRefused
  BY <1>1, <1>2, <1>3, <1>4, <1>5, <1>6, <1>7, <1>12, CountType DEF CertificateRefused, TypeOK, Counters
<1>13. CASE CertificateInterrupted
  BY <1>1, <1>2, <1>3, <1>4, <1>5, <1>6, <1>7, <1>13, StoreType, CountType
     DEF CertificateInterrupted, TypeOK, Counters
<1>14. CASE CertCreatorExits
  <2>1. CertCreatorTypeOK'
    BY <1>14 DEF CertCreatorExits, TypeOK, CertCreatorTypeOK
  <2> QED
    BY <1>1, <1>2, <1>3, <1>5, <1>7, <1>14, <2>1 DEF CertCreatorExits, TypeOK
<1> QED
  BY <1>8, <1>9, <1>10, <1>11, <1>12, <1>13, <1>14 DEF CertCreatorStep

LEMMA InHandType ==
    ASSUME TypeOK
    PROVE  InCreator \cup InCertCreator \subseteq ObjectIds
<1>1. InCreator \subseteq ObjectIds
  BY RequestTypes DEF InCreator, TypeOK, CreatorTypeOK
<1>2. InCertCreator \subseteq ObjectIds
  <2>1. certCreator.pc \in {"send", "call"} =>
           /\ PasswordRequest(certCreator.info).id \in ObjectIds
           /\ CertificateId(certCreator.info) \in ObjectIds
    BY RequestTypes DEF TypeOK, CertCreatorTypeOK
  <2> QED
    BY <2>1 DEF InCertCreator
<1> QED
  BY <1>1, <1>2

LEMMA DieType == TypeOK /\ Die => TypeOK'
<1> SUFFICES ASSUME TypeOK, Die PROVE TypeOK'
  OBVIOUS
<1>1. ClusterTypeOK'
  BY DEF Die, TypeOK, ClusterTypeOK, PodRecords, PodStates
<1>2. RuntimeTypeOK'
  BY DEF Die, Ends, TypeOK, RuntimeTypeOK
<1>3. CreatorTypeOK'
  BY InHandType DEF Die, CreatorIdle, TypeOK, CreatorTypeOK
<1>4. DeleterTypeOK' /\ CertCreatorTypeOK'
  BY DEF Die, DeleterIdle, DeleterTypeOK, CertCreatorIdle, CertCreatorTypeOK
<1>5. ValidatorTypeOK'
  <2>1. \A r \in Reviews : reviews[r] \in ReviewRecords
    BY DEF TypeOK, ValidatorTypeOK
  <2>2. \A r \in Reviews : [reviews[r] EXCEPT !.pc = "failed"] \in ReviewRecords
    BY <2>1 DEF ReviewRecords, ReviewPcs, Answers
  <2>3. reviews' \in [Reviews -> ReviewRecords]
    BY <2>1, <2>2 DEF Die
  <2>4. ASSUME NEW r \in Reviews
        PROVE  \/ reviews'[r] = reviews[r]
               \/ /\ reviews[r].pc # "idle" /\ reviews'[r].pc = "failed"
                  /\ reviews'[r].pod = reviews[r].pod /\ reviews'[r].op = reviews[r].op
    BY <2>1 DEF Die, Running, ReviewRecords
  <2> QED
    BY <2>3, <2>4 DEF TypeOK, ValidatorTypeOK
<1> QED
  BY <1>1, <1>2, <1>3, <1>4, <1>5 DEF TypeOK

LEMMA ProcessType == TypeOK /\ (ProcessStep \/ ShutdownStep \/ Restart) => TypeOK'
<1> SUFFICES ASSUME TypeOK, ProcessStep \/ ShutdownStep \/ Restart PROVE TypeOK'
  OBVIOUS
<1>1. UNCHANGED <<clusterVars, creatorVars, deleter, certCreator, reviews>>
  BY DEF ProcessStep, ShutdownStep, Restart
<1>2. RuntimeTypeOK'
  <2>1. CASE ProcessStep
    BY <2>1 DEF ProcessStep, Signal, TaskFails, CancelOnError, TypeOK, RuntimeTypeOK
  <2>2. CASE ShutdownStep
    BY <2>2 DEF ShutdownStep, BeginShutdown, EndShutdown, TypeOK, RuntimeTypeOK
  <2>3. CASE Restart
    BY <2>3, RuntimeAssumption DEF Restart, Start, StartFails, Fresh, TypeOK, RuntimeTypeOK, ClusterTypeOK
  <2> QED
    BY <2>1, <2>2, <2>3
<1> QED
  BY <1>1, <1>2, TypeFrames DEF TypeOK

LEMMA TypeStep == TypeOK /\ [Next]_vars => TypeOK'
<1> SUFFICES ASSUME TypeOK, [Next]_vars PROVE TypeOK'
  OBVIOUS
<1>1. ASSUME UNCHANGED vars PROVE TypeOK'
  BY <1>1, TypeFrames DEF vars, TypeOK
<1>2. ASSUME RunReturns \/ Kill PROVE TypeOK'
  BY <1>2, DieType DEF RunReturns, Kill
<1>3. ASSUME NEW r \in Reviews, HangUp(r) \/ Settle(r) \/ Handler(r) PROVE TypeOK'
  BY <1>3, EnvironmentType, HandlerType
<1> QED
  BY <1>1, <1>2, <1>3, EnvironmentType, SecretWorkerType, DeleteWorkerType, CertWorkerType,
     ProcessType DEF Next, Rest

(***************************************************************************)
(* Every variable of the cluster, the process, the workers and the         *)
(* handlers keeps its type.                                                *)
(***************************************************************************)
THEOREM TypeCorrect == Spec => []TypeOK
BY TypeInit, TypeStep, PTL DEF Spec

-----------------------------------------------------------------------------
(***************************************************************************)
(* What a handler's place says about its review, and that the root owner   *)
(* is read once.                                                           *)
(***************************************************************************)
HandlerInv ==
    \A r \in Reviews :
        /\ reviews[r].pc \in {"idle", "start", "closeCert", "closeDelete", "resolve", "sendDelete"}
              => reviews[r].root = None
        /\ At(r, "resolve") => reviews[r].op = "CREATE" /\ PodOf(r).enabled
        /\ reviews[r].pc \in {"sendSecret", "sendCert"} => Provides(r)
        /\ At(r, "sendCert") => PodOf(r).jvm
        /\ At(r, "sendDelete") => /\ reviews[r].op = "DELETE"
                                  /\ ~reviews[r].dry
                                  /\ PodOf(r).enabled
                                  /\ Ownerless(reviews[r].pod)

\* review r after a step, when it was under way before
Follows(r) ==
    /\ reviews'[r].pc # "idle"
    /\ reviews'[r].pod = reviews[r].pod
    /\ reviews'[r].op = reviews[r].op
    /\ reviews'[r].dry = reviews[r].dry
    /\ reviews[r].root # None => reviews'[r].root = reviews[r].root
    /\ reviews[r].pc \in Answers => reviews'[r].pc = reviews[r].pc /\ reviews'[r].root = reviews[r].root

\* the four ways a step can change the reviews
Begins(r) == /\ reviews[r].pc = "idle"
             /\ \E p \in Pods, op \in Operations, dry \in BOOLEAN :
                  reviews' = [reviews EXCEPT ![r] = [pc |-> "start", pod |-> p, op |-> op, dry |-> dry,
                                                     waiting |-> TRUE, root |-> None]]
StopsWaiting(r) == reviews' = [reviews EXCEPT ![r].waiting = FALSE]
AllFail == reviews' = [r \in Reviews |-> IF Running(r) THEN [reviews[r] EXCEPT !.pc = "failed"]
                                         ELSE reviews[r]]

LEMMA ReviewSteps ==
    ASSUME [Next]_vars
    PROVE  \/ UNCHANGED reviews
           \/ \E r \in Reviews : Begins(r) \/ StopsWaiting(r) \/ HandlerStep(r)
           \/ AllFail
<1>1. CASE UNCHANGED vars
  BY <1>1 DEF vars
<1>2. ASSUME NEW p \in Pods, Submit(p) \/ AddTruststore(p) \/ Unreachable(p) PROVE UNCHANGED reviews
  BY <1>2 DEF Submit, AddTruststore, Unreachable
<1>3. ASSUME NEW r \in Reviews, NEW p \in Pods, NEW op \in Operations, NEW dry \in BOOLEAN,
             Review(r, p, op, dry)
      PROVE  Begins(r)
  BY <1>3 DEF Review, Begins
<1>4. ASSUME NEW r \in Reviews, HangUp(r) \/ Settle(r) PROVE StopsWaiting(r)
  BY <1>4 DEF HangUp, Settle, StopsWaiting
<1>5. ASSUME NEW r \in Reviews, Handler(r) PROVE HandlerStep(r)
  BY <1>5 DEF Handler
<1>6. ASSUME ClusterStep \/ SecretWorker \/ DeleteWorker \/ CertWorker \/ ProcessStep
               \/ ShutdownStep \/ Restart \/ Rest
      PROVE  UNCHANGED reviews
  BY <1>6 DEF ClusterStep, SecretWorker, DeleteWorker, CertWorker, ProcessStep, ShutdownStep,
              Restart, Rest, vars
<1>7. ASSUME RunReturns \/ Kill PROVE AllFail
  BY <1>7 DEF RunReturns, Kill, Die, AllFail
<1> QED
  BY <1>1, <1>2, <1>3, <1>4, <1>5, <1>6, <1>7 DEF Next

LEMMA HandlerGoes ==
    ASSUME TypeOK, NEW r \in Reviews, HandlerStep(r)
    PROVE  \/ \E pc \in ReviewPcs \ {"idle", "resolve", "sendSecret"} : Goto(r, pc)
           \/ Dispatch(r)
           \/ Resolve(r)
BY DEF HandlerStep, CloseSecret, ClosePanics, CloseCert, CloseDelete, SendDelete, ResolveFails,
       SendSecret, SendCert, HandlerPanics, ReviewPcs, Answers

(***************************************************************************)
(* A review under way keeps its pod, its operation, whether it is a dry    *)
(* run, the root owner it found and the answer it got.                     *)
(***************************************************************************)
LEMMA ReviewFollows ==
    ASSUME TypeOK, HandlerInv, [Next]_vars
    PROVE  \A s \in Reviews : reviews[s].pc # "idle" => Follows(s)
<1> SUFFICES ASSUME NEW s \in Reviews, reviews[s].pc # "idle" PROVE Follows(s)
  OBVIOUS
<1>1. reviews \in [Reviews -> ReviewRecords] /\ reviews[s] \in ReviewRecords
  BY DEF TypeOK, ValidatorTypeOK
<1>2. CASE UNCHANGED reviews
  BY <1>2 DEF Follows
<1>3. ASSUME NEW r \in Reviews, Begins(r) PROVE Follows(s)
  BY <1>1, <1>3 DEF Begins, Follows
<1>4. ASSUME NEW r \in Reviews, StopsWaiting(r) PROVE Follows(s)
  BY <1>1, <1>4 DEF StopsWaiting, Follows, ReviewRecords
<1>5. ASSUME NEW r \in Reviews, HandlerStep(r) PROVE Follows(s)
  <2>1. reviews[r].pc \notin Answers
    BY <1>5 DEF HandlerStep, CloseSecret, ClosePanics, CloseCert, CloseDelete, Dispatch, SendDelete,
                Resolve, ResolveFails, SendSecret, SendCert, HandlerPanics, At, Answers
  <2>2. ASSUME NEW pc \in ReviewPcs \ {"idle"}, Goto(r, pc) PROVE Follows(s)
    BY <1>1, <2>1, <2>2 DEF Goto, Follows, ReviewRecords
  <2>3. CASE Dispatch(r)
    <3>1. PICK pc \in {"allowed", "sendDelete", "resolve", "failed"} : Goto(r, pc)
      BY <2>3 DEF Dispatch
    <3> QED
      BY <2>2, <3>1 DEF ReviewPcs, Answers
  <2>4. CASE Resolve(r)
    <3>1. reviews[r].root = None
      BY <2>4 DEF Resolve, HandlerInv, At
    <3>2. PICK pc \in {"allowed", "sendSecret"} :
             reviews' = [reviews EXCEPT ![r] = [reviews[r] EXCEPT !.root = root[reviews[r].pod], !.pc = pc]]
      BY <2>4 DEF Resolve
    <3> QED
      BY <1>1, <2>1, <3>1, <3>2 DEF Follows, ReviewRecords
  <2> QED
    BY <1>5, <2>2, <2>3, <2>4, HandlerGoes
<1>6. CASE AllFail
  BY <1>1, <1>6 DEF AllFail, Running, Follows, ReviewRecords, Answers
<1> QED
  BY <1>2, <1>3, <1>4, <1>5, <1>6, ReviewSteps

LEMMA HandlerInvInit == Init => HandlerInv
BY DEF Init, ValidatorInit, HandlerInv, At

(***************************************************************************)
(* A step leaves a review that it does not run as HandlerInv wants it.     *)
(***************************************************************************)
LEMMA HandlerInvStep == TypeOK /\ HandlerInv /\ [Next]_vars => HandlerInv'
<1> SUFFICES ASSUME TypeOK, HandlerInv, [Next]_vars PROVE HandlerInv'
  OBVIOUS
<1> DEFINE Inv(r) ==
        /\ reviews[r].pc \in {"idle", "start", "closeCert", "closeDelete", "resolve", "sendDelete"}
              => reviews[r].root = None
        /\ At(r, "resolve") => reviews[r].op = "CREATE" /\ PodOf(r).enabled
        /\ reviews[r].pc \in {"sendSecret", "sendCert"} => Provides(r)
        /\ At(r, "sendCert") => PodOf(r).jvm
        /\ At(r, "sendDelete") => /\ reviews[r].op = "DELETE"
                                  /\ ~reviews[r].dry
                                  /\ PodOf(r).enabled
                                  /\ Ownerless(reviews[r].pod)
<1>1. reviews \in [Reviews -> ReviewRecords] /\ \A s \in Reviews : reviews[s] \in ReviewRecords
  BY DEF TypeOK, ValidatorTypeOK
<1>2. \A s \in Reviews : Inv(s)
  BY DEF HandlerInv
<1>3. \A s \in Reviews : reviews'[s] = reviews[s] => Inv(s)'
  BY <1>2 DEF At, PodOf, Provides, Ownerless
<1>4. SUFFICES \A s \in Reviews : Inv(s)'
  BY DEF HandlerInv
<1>5. ASSUME NEW r \in Reviews, Begins(r), NEW s \in Reviews PROVE Inv(s)'
  <2>1. CASE s = r
    BY <1>1, <1>5, <2>1 DEF Begins, At
  <2>2. CASE s # r
    BY <1>1, <1>3, <1>5, <2>2 DEF Begins
  <2> QED
    BY <2>1, <2>2
<1>6. ASSUME NEW r \in Reviews, StopsWaiting(r), NEW s \in Reviews PROVE Inv(s)'
  <2>1. /\ reviews'[s].pc = reviews[s].pc /\ reviews'[s].root = reviews[s].root
        /\ reviews'[s].op = reviews[s].op /\ reviews'[s].pod = reviews[s].pod
        /\ reviews'[s].dry = reviews[s].dry
    BY <1>1, <1>6 DEF StopsWaiting, ReviewRecords
  <2> QED
    BY <1>2, <2>1 DEF At, PodOf, Provides, Ownerless
<1>7. CASE AllFail
  <2>1. ASSUME NEW s \in Reviews PROVE Inv(s)'
    <3>1. CASE Running(s)
      <4>1. reviews'[s].pc = "failed"
        BY <1>1, <1>7, <3>1 DEF AllFail, ReviewRecords
      <4> QED
        BY <4>1 DEF At
    <3>2. CASE ~Running(s)
      BY <1>3, <1>7, <3>2 DEF AllFail
    <3> QED
      BY <3>1, <3>2
  <2> QED
    BY <2>1
<1>8. ASSUME NEW r \in Reviews, HandlerStep(r), NEW s \in Reviews PROVE Inv(s)'
  <2>1. CASE s # r
    <3>1. reviews'[s] = reviews[s]
      BY <1>1, <1>8, <2>1, HandlerGoes DEF Dispatch, Resolve, Goto
    <3> QED
      BY <1>3, <3>1
  <2>2. CASE s = r
    <3>1. ASSUME NEW pc, Goto(r, pc)
          PROVE  /\ reviews'[r].pc = pc /\ reviews'[r].root = reviews[r].root
                 /\ reviews'[r].op = reviews[r].op /\ reviews'[r].pod = reviews[r].pod
                 /\ reviews'[r].dry = reviews[r].dry
      BY <1>1, <3>1 DEF Goto, ReviewRecords
    <3>2. CASE CloseSecret(r) \/ CloseCert(r)
      BY <1>2, <2>2, <3>1, <3>2 DEF CloseSecret, CloseCert, At
    <3>3. CASE ClosePanics(r) \/ CloseDelete(r) \/ SendDelete(r) \/ ResolveFails(r) \/ SendCert(r)
                 \/ HandlerPanics(r)
      BY <2>2, <3>1, <3>3 DEF ClosePanics, CloseDelete, SendDelete, ResolveFails, SendCert,
                              HandlerPanics, At
    <3>4. CASE Dispatch(r)
      <4>1. reviews[r].pod \in Pods /\ reviews[r].root = None
        BY <1>2, <3>4 DEF Dispatch, At, TypeOK, ValidatorTypeOK
      <4>2. \/ Goto(r, "allowed") \/ Goto(r, "failed")
            \/ Goto(r, "sendDelete") /\ PodOf(r).enabled /\ reviews[r].op = "DELETE"
                 /\ Ownerless(reviews[r].pod) /\ ~reviews[r].dry
            \/ Goto(r, "resolve") /\ PodOf(r).enabled /\ reviews[r].op = "CREATE"
        <5>1. CASE ~PodOf(r).enabled
          BY <3>4, <5>1 DEF Dispatch
        <5>2. CASE PodOf(r).enabled /\ reviews[r].op = "DELETE"
          BY <3>4, <5>2 DEF Dispatch
        <5>3. CASE PodOf(r).enabled /\ reviews[r].op = "CREATE"
          BY <3>4, <5>3 DEF Dispatch
        <5>4. CASE PodOf(r).enabled /\ reviews[r].op \notin {"CREATE", "DELETE"}
          BY <3>4, <5>4 DEF Dispatch
        <5> QED
          BY <5>1, <5>2, <5>3, <5>4
      <4> QED
        BY <2>2, <3>1, <4>1, <4>2 DEF At, PodOf, Ownerless
    <3>5. CASE Resolve(r)
      <4>1. reviews[r].op = "CREATE" /\ PodOf(r).enabled
        BY <1>2, <3>5 DEF Resolve
      <4>2. root[reviews[r].pod] # None
        BY <3>5, ClusterAssumption DEF Resolve, At, TypeOK, ValidatorTypeOK, ClusterTypeOK
      <4>3. reviews' = [reviews EXCEPT ![r] =
                [reviews[r] EXCEPT !.root = root[reviews[r].pod],
                                   !.pc = IF reviews[r].dry THEN "allowed" ELSE "sendSecret"]]
        BY <3>5 DEF Resolve
      <4>4. /\ reviews'[r].pc = IF reviews[r].dry THEN "allowed" ELSE "sendSecret"
            /\ reviews'[r].root = root[reviews[r].pod]
            /\ reviews'[r].op = reviews[r].op /\ reviews'[r].pod = reviews[r].pod
            /\ reviews'[r].dry = reviews[r].dry
        BY <1>1, <4>3 DEF ReviewRecords
      <4>5. reviews[r].dry \in BOOLEAN
        BY <1>1 DEF ReviewRecords
      <4> QED
        BY <2>2, <4>1, <4>2, <4>4, <4>5 DEF At, PodOf, Provides
    <3>6. CASE SendSecret(r)
      <4>1. Provides(r)
        BY <1>2, <3>6 DEF SendSecret, At
      <4>2. Goto(r, "allowed") \/ (Goto(r, "sendCert") /\ PodOf(r).jvm)
        BY <3>6 DEF SendSecret
      <4> QED
        BY <2>2, <3>1, <4>1, <4>2 DEF At, PodOf, Provides
    <3> QED
      BY <1>8, <3>2, <3>3, <3>4, <3>5, <3>6 DEF HandlerStep
  <2> QED
    BY <2>1, <2>2
<1> QED
  BY <1>3, <1>5, <1>6, <1>7, <1>8, ReviewSteps

-----------------------------------------------------------------------------
(***************************************************************************)
(* What a review asked for it goes on asking for.                          *)
(***************************************************************************)
LEMMA AskingStays ==
    ASSUME TypeOK, HandlerInv, [Next]_vars, NEW r \in Reviews
    PROVE  /\ Provides(r) => /\ Provides(r)'
                             /\ reviews'[r].root = reviews[r].root
                             /\ reviews'[r].pod = reviews[r].pod
           /\ AsksDeletion(r) => AsksDeletion(r)' /\ reviews'[r].pod = reviews[r].pod
<1>1. Provides(r) => reviews[r].pc # "idle"
  BY DEF Provides, HandlerInv
<1>2. reviews[r].pc # "idle" => Follows(r)
  BY ReviewFollows
<1>3. Provides(r) => Provides(r)' /\ reviews'[r].root = reviews[r].root /\ reviews'[r].pod = reviews[r].pod
  BY <1>1, <1>2 DEF Provides, Follows, PodOf
<1>4. AsksDeletion(r) => AsksDeletion(r)' /\ reviews'[r].pod = reviews[r].pod
  BY <1>2 DEF AsksDeletion, Follows, PodOf, At, Answers, Ownerless
<1> QED
  BY <1>3, <1>4

LEMMA WantedStays ==
    ASSUME TypeOK, HandlerInv, [Next]_vars
    PROVE  /\ \A i, o, d : Wanted(i, o, d) => Wanted(i, o, d)'
           /\ \A info : InfoWanted(info) => InfoWanted(info)'
           /\ \A i : DeletionWanted(i) => DeletionWanted(i)'
           /\ \A t, w : TruststoreWanted(t, w) => TruststoreWanted(t, w)'
<1>1. ASSUME NEW i, NEW o, NEW d, Wanted(i, o, d) PROVE Wanted(i, o, d)'
  <2>1. PICK r \in Reviews :
          /\ Provides(r)
          /\ o = reviews[r].root.uid
          /\ \/ i = SecretRequest(r).id /\ d \in Bundles
             \/ /\ PodOf(r).jvm
                /\ \/ i = PasswordRequest(CertInfo(r)).id /\ d = Base64(PodOf(r).password)
                   \/ i = CertificateId(CertInfo(r)) /\ d = None
    BY <1>1 DEF Wanted
  <2>2. /\ Provides(r)' /\ reviews'[r].root = reviews[r].root /\ reviews'[r].pod = reviews[r].pod
    BY <2>1, AskingStays
  <2> QED
    BY <2>1, <2>2 DEF Wanted, SecretRequest, CertInfo, PodOf
<1>2. ASSUME NEW info, InfoWanted(info) PROVE InfoWanted(info)'
  <2>1. PICK r \in Reviews : Provides(r) /\ PodOf(r).jvm /\ info = CertInfo(r)
    BY <1>2 DEF InfoWanted
  <2>2. /\ Provides(r)' /\ reviews'[r].root = reviews[r].root /\ reviews'[r].pod = reviews[r].pod
    BY <2>1, AskingStays
  <2> QED
    BY <2>1, <2>2 DEF InfoWanted, CertInfo, PodOf
<1>3. ASSUME NEW i, DeletionWanted(i) PROVE DeletionWanted(i)'
  <2>1. PICK r \in Reviews : AsksDeletion(r) /\ i = DeletedSecret(r)
    BY <1>3 DEF DeletionWanted
  <2>2. AsksDeletion(r)' /\ reviews'[r].pod = reviews[r].pod
    BY <2>1, AskingStays
  <2> QED
    BY <2>1, <2>2 DEF DeletionWanted, DeletedSecret, PodOf
<1>4. ASSUME NEW t, NEW w, TruststoreWanted(t, w) PROVE TruststoreWanted(t, w)'
  <2>1. PICK r \in Reviews : /\ Provides(r) /\ PodOf(r).jvm
                             /\ t = [ns |-> PodOf(r).ns, base |-> reviews[r].root.name]
                             /\ w = Base64(PodOf(r).password)
    BY <1>4 DEF TruststoreWanted
  <2>2. /\ Provides(r)' /\ reviews'[r].root = reviews[r].root /\ reviews'[r].pod = reviews[r].pod
    BY <2>1, AskingStays
  <2> QED
    BY <2>1, <2>2 DEF TruststoreWanted, PodOf
<1> QED
  BY <1>1, <1>2, <1>3, <1>4

(***************************************************************************)
(* The password request and the Certificate of a wanted certificate        *)
(* request are wanted.                                                     *)
(***************************************************************************)
LEMMA InfoAsks ==
    ASSUME NEW info, InfoWanted(info)
    PROVE  /\ Wanted(PasswordRequest(info).id, PasswordRequest(info).owner, PasswordRequest(info).data)
           /\ Wanted(CertificateId(info), NewCertificate(info).owner, NewCertificate(info).data)
<1>1. PICK r \in Reviews : Provides(r) /\ PodOf(r).jvm /\ info = CertInfo(r)
  BY DEF InfoWanted
<1>2. info.owner = reviews[r].root.uid /\ info.password = PodOf(r).password
  BY <1>1 DEF CertInfo
<1>3. PasswordRequest(info).owner = info.owner /\ PasswordRequest(info).data = Base64(info.password)
  BY DEF PasswordRequest
<1>4. NewCertificate(info).owner = info.owner /\ NewCertificate(info).data = None
  BY DEF NewCertificate
<1> QED
  BY <1>1, <1>2, <1>3, <1>4 DEF Wanted

\* the five parts of NothingUnasked
ObjectsWanted == \A i \in ObjectIds : Exists(i) => Wanted(i, objects[i].owner, objects[i].data)
CreatorWanted == creator.pc = "call" => Wanted(creator.req.id, creator.req.owner, creator.req.data)
CertCreatorWanted == certCreator.pc \in {"send", "call"} => InfoWanted(certCreator.info)
DeleterWanted == deleter.pc = "call" => DeletionWanted(deleter.id)
TruststoresWanted ==
    \A t \in TruststoreIds : truststores[t] # None => TruststoreWanted(t, truststores[t])

LEMMA UnaskedParts ==
    NothingUnasked <=> /\ ObjectsWanted /\ CreatorWanted /\ CertCreatorWanted /\ DeleterWanted
                       /\ TruststoresWanted
BY DEF NothingUnasked, ObjectsWanted, CreatorWanted, CertCreatorWanted, DeleterWanted, TruststoresWanted

(***************************************************************************)
(* The ways a step can change what is stored, and what a worker holds.     *)
(***************************************************************************)
LEMMA ObjectSteps ==
    ASSUME [Next]_vars
    PROVE  \/ UNCHANGED objects
           \/ creator.pc = "call" /\ Stores(creator.req.id, NewSecret(creator.req))
           \/ certCreator.pc = "call" /\ Stores(CertificateId(certCreator.info), NewCertificate(certCreator.info))
           \/ deleter.pc = "call" /\ Removes(deleter.id)
           \/ \E i \in ObjectIds : objects[i].owner \in dead /\ Removes(i)
<1>1. CASE UNCHANGED vars
  BY <1>1 DEF vars, clusterVars
<1>2. ASSUME \/ \E p \in Pods : Submit(p) \/ AddTruststore(p) \/ Unreachable(p)
             \/ \E r \in Reviews, p \in Pods, op \in Operations, dry \in BOOLEAN : Review(r, p, op, dry)
             \/ \E r \in Reviews : HangUp(r) \/ Settle(r) \/ Handler(r)
             \/ ProcessStep \/ ShutdownStep \/ RunReturns \/ Kill \/ Restart \/ Rest
      PROVE  UNCHANGED objects
  BY <1>2 DEF Submit, AddTruststore, Unreachable, Review, HangUp, Settle, Handler, ProcessStep, ShutdownStep,
              RunReturns, Kill, Die, Restart, Rest, vars, clusterVars
<1>3. CASE ClusterStep
  BY <1>3 DEF ClusterStep, OwnerDeleted, CollectGarbage, Reparent, IssueTruststore, RotateCA
<1>4. CASE SecretWorker
  BY <1>4 DEF SecretWorker, CreatorStep, CreateSucceeds, CreateFindsSecret, CreateFails, CreatorExits, MayStore
<1>5. CASE DeleteWorker
  BY <1>5 DEF DeleteWorker, DeleterStep, DeleteSucceeds, DeleteFindsNothing, DeleteRefused,
              DeleteInterrupted, DeleterExits, MayRemove
<1>6. CASE CertWorker
  BY <1>6 DEF CertWorker, CertCreatorStep, SendPassword, SendPanics, CertificateCreated, CertificateFound,
              CertificateRefused, CertificateInterrupted, CertCreatorExits, MayStore
<1> QED
  BY <1>1, <1>2, <1>3, <1>4, <1>5, <1>6 DEF Next

LEMMA CreatorSteps ==
    ASSUME [Next]_vars
    PROVE  \/ UNCHANGED creator
           \/ creator'.pc # "call"
           \/ \E r \in Reviews : SendSecret(r)
           \/ SendPassword
<1>1. CASE UNCHANGED vars
  BY <1>1 DEF vars, creatorVars
<1>2. ASSUME \/ \E p \in Pods : Submit(p) \/ AddTruststore(p) \/ Unreachable(p)
             \/ \E r \in Reviews, p \in Pods, op \in Operations, dry \in BOOLEAN : Review(r, p, op, dry)
             \/ \E r \in Reviews : HangUp(r) \/ Settle(r)
             \/ ClusterStep \/ DeleteWorker \/ ProcessStep \/ ShutdownStep \/ Restart \/ Rest
      PROVE  UNCHANGED creator
  BY <1>2 DEF Submit, AddTruststore, Unreachable, Review, HangUp, Settle, ClusterStep, DeleteWorker, ProcessStep,
              ShutdownStep, Restart, Rest, vars, creatorVars
<1>3. ASSUME NEW r \in Reviews, Handler(r) PROVE UNCHANGED creator \/ SendSecret(r)
  BY <1>3 DEF Handler, HandlerStep, CloseSecret, ClosePanics, CloseCert, CloseDelete, Dispatch,
              SendDelete, Resolve, ResolveFails, SendCert, HandlerPanics
<1>4. CASE SecretWorker
  <2>1. CASE CreatorExits
    BY <2>1 DEF CreatorExits
  <2>2. CASE CreateSucceeds \/ CreateFindsSecret \/ CreateFails
    BY <2>2 DEF CreateSucceeds, CreateFindsSecret, CreateFails, CreatorIdle
  <2> QED
    BY <1>4, <2>1, <2>2 DEF SecretWorker, CreatorStep
<1>5. CASE CertWorker
  BY <1>5 DEF CertWorker, CertCreatorStep, SendPanics, CertificateCreated, CertificateFound,
              CertificateRefused, CertificateInterrupted, CertCreatorExits
<1>6. CASE RunReturns \/ Kill
  BY <1>6 DEF RunReturns, Kill, Die, CreatorIdle
<1> QED
  BY <1>1, <1>2, <1>3, <1>4, <1>5, <1>6 DEF Next

LEMMA CertCreatorSteps ==
    ASSUME [Next]_vars
    PROVE  \/ UNCHANGED certCreator
           \/ certCreator'.pc \notin {"send", "call"}
           \/ \E r \in Reviews : SendCert(r)
           \/ SendPassword
<1>1. CASE UNCHANGED vars
  BY <1>1 DEF vars
<1>2. ASSUME \/ \E p \in Pods : Submit(p) \/ AddTruststore(p) \/ Unreachable(p)
             \/ \E r \in Reviews, p \in Pods, op \in Operations, dry \in BOOLEAN : Review(r, p, op, dry)
             \/ \E r \in Reviews : HangUp(r) \/ Settle(r)
             \/ ClusterStep \/ SecretWorker \/ DeleteWorker \/ ProcessStep \/ ShutdownStep \/ Restart \/ Rest
      PROVE  UNCHANGED certCreator
  BY <1>2 DEF Submit, AddTruststore, Unreachable, Review, HangUp, Settle, ClusterStep, SecretWorker, DeleteWorker,
              ProcessStep, ShutdownStep, Restart, Rest, vars
<1>3. ASSUME NEW r \in Reviews, Handler(r) PROVE UNCHANGED certCreator \/ SendCert(r)
  BY <1>3 DEF Handler, HandlerStep, CloseSecret, ClosePanics, CloseCert, CloseDelete, Dispatch,
              SendDelete, Resolve, ResolveFails, SendSecret, HandlerPanics
<1>4. CASE CertWorker
  <2>1. CASE CertCreatorExits
    BY <2>1 DEF CertCreatorExits
  <2>2. CASE SendPanics
    BY <2>2 DEF SendPanics
  <2>3. CASE CertificateCreated \/ CertificateFound \/ CertificateRefused \/ CertificateInterrupted
    BY <2>3 DEF CertificateCreated, CertificateFound, CertificateRefused, CertificateInterrupted, CertCreatorIdle
  <2> QED
    BY <1>4, <2>1, <2>2, <2>3 DEF CertWorker, CertCreatorStep
<1>5. CASE RunReturns \/ Kill
  BY <1>5 DEF RunReturns, Kill, Die, CertCreatorIdle
<1> QED
  BY <1>1, <1>2, <1>3, <1>4, <1>5 DEF Next

LEMMA DeleterSteps ==
    ASSUME [Next]_vars
    PROVE  \/ UNCHANGED deleter
           \/ deleter'.pc # "call"
           \/ \E r \in Reviews : SendDelete(r)
<1>1. CASE UNCHANGED vars
  BY <1>1 DEF vars
<1>2. ASSUME \/ \E p \in Pods : Submit(p) \/ AddTruststore(p) \/ Unreachable(p)
             \/ \E r \in Reviews, p \in Pods, op \in Operations, dry \in BOOLEAN : Review(r, p, op, dry)
             \/ \E r \in Reviews : HangUp(r) \/ Settle(r)
             \/ ClusterStep \/ SecretWorker \/ CertWorker \/ ProcessStep \/ ShutdownStep \/ Restart \/ Rest
      PROVE  UNCHANGED deleter
  BY <1>2 DEF Submit, AddTruststore, Unreachable, Review, HangUp, Settle, ClusterStep, SecretWorker, CertWorker,
              ProcessStep, ShutdownStep, Restart, Rest, vars
<1>3. ASSUME NEW r \in Reviews, Handler(r) PROVE UNCHANGED deleter \/ SendDelete(r)
  BY <1>3 DEF Handler, HandlerStep, CloseSecret, ClosePanics, CloseCert, CloseDelete, Dispatch,
              SendCert, Resolve, ResolveFails, SendSecret, HandlerPanics
<1>4. CASE DeleteWorker
  <2>1. CASE DeleterExits
    BY <2>1 DEF DeleterExits
  <2>2. CASE DeleteSucceeds \/ DeleteFindsNothing \/ DeleteRefused \/ DeleteInterrupted
    BY <2>2 DEF DeleteSucceeds, DeleteFindsNothing, DeleteRefused, DeleteInterrupted, DeleterIdle
  <2> QED
    BY <1>4, <2>1, <2>2 DEF DeleteWorker, DeleterStep
<1>5. CASE RunReturns \/ Kill
  BY <1>5 DEF RunReturns, Kill, Die, DeleterIdle
<1> QED
  BY <1>1, <1>2, <1>3, <1>4, <1>5 DEF Next

LEMMA TruststoreSteps ==
    ASSUME TypeOK, [Next]_vars, NEW t \in TruststoreIds
    PROVE  truststores'[t] = truststores[t] \/ IssueTruststore(t)
<1>1. CASE UNCHANGED vars
  BY <1>1 DEF vars, clusterVars
<1>2. CASE ClusterStep
  <2>1. ASSUME NEW u \in TruststoreIds, IssueTruststore(u) PROVE truststores'[t] = truststores[t] \/ u = t
    BY <2>1 DEF IssueTruststore, TypeOK, ClusterTypeOK
  <2> QED
    BY <1>2, <2>1 DEF ClusterStep, OwnerDeleted, CollectGarbage, Reparent, RotateCA
<1>3. ASSUME \/ \E p \in Pods : Submit(p) \/ AddTruststore(p) \/ Unreachable(p)
             \/ \E r \in Reviews, p \in Pods, op \in Operations, dry \in BOOLEAN : Review(r, p, op, dry)
             \/ \E r \in Reviews : HangUp(r) \/ Settle(r) \/ Handler(r)
             \/ SecretWorker \/ DeleteWorker \/ CertWorker
             \/ ProcessStep \/ ShutdownStep \/ RunReturns \/ Kill \/ Restart \/ Rest
      PROVE  UNCHANGED truststores
  BY <1>3 DEF Submit, AddTruststore, Unreachable, Review, HangUp, Settle, Handler, SecretWorker,
              DeleteWorker, CertWorker, ProcessStep, ShutdownStep, RunReturns, Kill, Die, Restart, Rest,
              vars, clusterVars
<1> QED
  BY <1>1, <1>2, <1>3 DEF Next

(***************************************************************************)
(* The data of a wanted password Secret is what a truststore of that name  *)
(* may be encrypted with.                                                  *)
(***************************************************************************)
LEMMA TruststoreFromPassword ==
    ASSUME NEW t \in TruststoreIds, NEW o, NEW d, Wanted(TruststorePasswordSecretName(t.ns, t.base), o, d)
    PROVE  TruststoreWanted(t, d)
<1> DEFINE i == TruststorePasswordSecretName(t.ns, t.base)
<1>1. PICK r \in Reviews :
        /\ Provides(r)
        /\ \/ i = SecretRequest(r).id /\ d \in Bundles
           \/ /\ PodOf(r).jvm
              /\ \/ i = PasswordRequest(CertInfo(r)).id /\ d = Base64(PodOf(r).password)
                 \/ i = CertificateId(CertInfo(r)) /\ d = None
  BY DEF Wanted
<1>2. i.kind = "password" /\ i.ns = t.ns /\ i.base = t.base
  BY DEF TruststorePasswordSecretName
<1>3. SecretRequest(r).id.kind = "ca" /\ CertificateId(CertInfo(r)).kind = "certificate"
  BY DEF SecretRequest, SecretName, CertificateId, CertificateName
<1>4. /\ PodOf(r).jvm /\ d = Base64(PodOf(r).password)
      /\ i = PasswordRequest(CertInfo(r)).id
  BY <1>1, <1>2, <1>3
<1>5. i.ns = PodOf(r).ns /\ i.base = reviews[r].root.name
  BY <1>4 DEF PasswordRequest, CertInfo, TruststorePasswordSecretName
<1>6. t = [ns |-> PodOf(r).ns, base |-> reviews[r].root.name]
  BY <1>2, <1>5 DEF TruststoreIds
<1> QED
  BY <1>1, <1>4, <1>6 DEF TruststoreWanted

LEMMA UnaskedInit == Init => NothingUnasked
BY DEF Init, ClusterInit, CreatorInit, CreatorIdle, CertCreatorInit, CertCreatorIdle, DeleterInit,
       DeleterIdle, NothingUnasked, Exists, TruststoreIds

LEMMA UnaskedStep == TypeOK /\ HandlerInv /\ NothingUnasked /\ [Next]_vars => NothingUnasked'
<1> SUFFICES ASSUME TypeOK, HandlerInv, ObjectsWanted, CreatorWanted, CertCreatorWanted, DeleterWanted,
                    TruststoresWanted, [Next]_vars
             PROVE  /\ ObjectsWanted' /\ CreatorWanted' /\ CertCreatorWanted' /\ DeleterWanted'
                    /\ TruststoresWanted'
  BY UnaskedParts DEF NothingUnasked, ObjectsWanted, CreatorWanted, CertCreatorWanted, DeleterWanted,
                      TruststoresWanted
<1>1. ObjectsWanted'
  <2>1. objects \in [ObjectIds -> Objects \cup {None}]
    BY DEF TypeOK, ClusterTypeOK
  <2>2. ASSUME NEW i \in ObjectIds, objects'[i] = objects[i], Exists(i)'
        PROVE  Wanted(i, objects[i].owner, objects[i].data)'
    <3>1. Wanted(i, objects[i].owner, objects[i].data)
      BY <2>2 DEF ObjectsWanted, Exists
    <3>2. PICK o, d : o = objects[i].owner /\ d = objects[i].data
      OBVIOUS
    <3>3. Wanted(i, o, d)'
      BY <3>1, <3>2, WantedStays
    <3> QED
      BY <2>2, <3>2, <3>3 DEF Wanted
  <2>3. ASSUME NEW j \in ObjectIds, NEW o, Stores(j, o), Wanted(j, o.owner, o.data),
               NEW i \in ObjectIds, Exists(i)'
        PROVE  Wanted(i, objects[i].owner, objects[i].data)'
    <3>1. CASE i = j
      <4>1. objects'[i] = o
        BY <2>1, <2>3, <3>1 DEF Stores
      <4>2. Wanted(j, o.owner, o.data)'
        <5>1. PICK w, d : w = o.owner /\ d = o.data
          OBVIOUS
        <5>2. Wanted(j, w, d)'
          BY <2>3, <5>1, WantedStays
        <5> QED
          BY <5>1, <5>2
      <4> QED
        BY <3>1, <4>1, <4>2 DEF Wanted
    <3>2. CASE i # j
      BY <2>1, <2>2, <2>3, <3>2 DEF Stores
    <3> QED
      BY <3>1, <3>2
  <2>4. ASSUME NEW j, Removes(j), NEW i \in ObjectIds, Exists(i)'
        PROVE  Wanted(i, objects[i].owner, objects[i].data)'
    <3>1. objects'[i] = objects[i]
      BY <2>1, <2>4 DEF Removes, Exists
    <3> QED
      BY <2>2, <2>4, <3>1
  <2>5. CASE UNCHANGED objects
    BY <2>2, <2>5 DEF ObjectsWanted
  <2>6. CASE creator.pc = "call" /\ Stores(creator.req.id, NewSecret(creator.req))
    <3>1. creator.req.id \in ObjectIds
      BY <2>6, RequestTypes DEF TypeOK, CreatorTypeOK
    <3>2. Wanted(creator.req.id, NewSecret(creator.req).owner, NewSecret(creator.req).data)
      BY <2>6 DEF CreatorWanted, NewSecret
    <3> QED
      BY <2>3, <2>6, <3>1, <3>2 DEF ObjectsWanted
  <2>7. CASE certCreator.pc = "call" /\ Stores(CertificateId(certCreator.info), NewCertificate(certCreator.info))
    <3>1. CertificateId(certCreator.info) \in ObjectIds
      BY <2>7, RequestTypes DEF TypeOK, CertCreatorTypeOK
    <3>2. Wanted(CertificateId(certCreator.info), NewCertificate(certCreator.info).owner,
                 NewCertificate(certCreator.info).data)
      BY <2>7, InfoAsks DEF CertCreatorWanted
    <3> QED
      BY <2>3, <2>7, <3>1, <3>2 DEF ObjectsWanted
  <2>8. CASE (deleter.pc = "call" /\ Removes(deleter.id)) \/ \E i \in ObjectIds : objects[i].owner \in dead /\ Removes(i)
    BY <2>4, <2>8 DEF ObjectsWanted
  <2> QED
    BY <2>5, <2>6, <2>7, <2>8, ObjectSteps
<1>2. CreatorWanted'
  <2>1. CASE UNCHANGED creator
    <3>1. PICK req : req = creator.req
      OBVIOUS
    <3>2. creator.pc = "call" => Wanted(req.id, req.owner, req.data)'
      BY <3>1, WantedStays DEF CreatorWanted
    <3> QED
      BY <2>1, <3>1, <3>2 DEF CreatorWanted
  <2>2. ASSUME NEW r \in Reviews, SendSecret(r) PROVE CreatorWanted'
    <3>1. Provides(r)
      BY <2>2 DEF SendSecret, HandlerInv, At
    <3>2. /\ creator'.req.id = SecretRequest(r).id
          /\ creator'.req.owner = reviews[r].root.uid
          /\ creator'.req.data \in Bundles
      BY <2>2 DEF SendSecret, CreatorReceives, SecretRequest, TypeOK, RuntimeTypeOK
    <3>3. /\ Provides(r)' /\ reviews'[r].root = reviews[r].root /\ reviews'[r].pod = reviews[r].pod
      BY <3>1, AskingStays
    <3> QED
      BY <3>2, <3>3 DEF CreatorWanted, Wanted, SecretRequest, PodOf
  <2>3. CASE SendPassword
    <3>1. PICK req : req = PasswordRequest(certCreator.info)
      OBVIOUS
    <3>2. Wanted(req.id, req.owner, req.data)'
      BY <2>3, <3>1, InfoAsks, WantedStays DEF SendPassword, CertCreatorWanted
    <3>3. creator'.req = req
      BY <2>3, <3>1 DEF SendPassword, CreatorReceives
    <3> QED
      BY <3>2, <3>3 DEF CreatorWanted
  <2> QED
    BY <2>1, <2>2, <2>3, CreatorSteps DEF CreatorWanted
<1>3. CertCreatorWanted'
  <2>1. ASSUME NEW info, info = certCreator.info, certCreator.pc \in {"send", "call"}, certCreator'.info = info
        PROVE  CertCreatorWanted'
    <3>1. InfoWanted(info)'
      BY <2>1, WantedStays DEF CertCreatorWanted
    <3> QED
      BY <2>1, <3>1 DEF CertCreatorWanted
  <2>2. CASE UNCHANGED certCreator
    BY <2>1, <2>2 DEF CertCreatorWanted
  <2>3. ASSUME NEW r \in Reviews, SendCert(r) PROVE CertCreatorWanted'
    <3>1. Provides(r) /\ PodOf(r).jvm
      BY <2>3 DEF SendCert, HandlerInv, At
    <3>2. certCreator'.info = CertInfo(r)
      BY <2>3 DEF SendCert, CertCreatorReceives
    <3>3. /\ Provides(r)' /\ reviews'[r].root = reviews[r].root /\ reviews'[r].pod = reviews[r].pod
      BY <3>1, AskingStays
    <3> QED
      BY <3>1, <3>2, <3>3 DEF CertCreatorWanted, InfoWanted, CertInfo, PodOf
  <2>4. CASE SendPassword
    <3>1. certCreator.pc = "send" /\ certCreator'.info = certCreator.info
      BY <2>4 DEF SendPassword, TypeOK, CertCreatorTypeOK
    <3> QED
      BY <2>1, <3>1
  <2> QED
    BY <2>2, <2>3, <2>4, CertCreatorSteps DEF CertCreatorWanted
<1>4. DeleterWanted'
  <2>1. CASE UNCHANGED deleter
    <3>1. PICK id : id = deleter.id
      OBVIOUS
    <3>2. deleter.pc = "call" => DeletionWanted(id)'
      BY <3>1, WantedStays DEF DeleterWanted
    <3> QED
      BY <2>1, <3>1, <3>2 DEF DeleterWanted
  <2>2. ASSUME NEW r \in Reviews, SendDelete(r) PROVE DeleterWanted'
    <3>1. /\ reviews[r].op = "DELETE" /\ ~reviews[r].dry /\ PodOf(r).enabled
          /\ Ownerless(reviews[r].pod)
      BY <2>2 DEF SendDelete, HandlerInv, At
    <3>2. /\ reviews'[r].pc = "allowed" /\ reviews'[r].op = reviews[r].op
          /\ reviews'[r].dry = reviews[r].dry /\ reviews'[r].pod = reviews[r].pod
      BY <2>2 DEF SendDelete, Goto, TypeOK, ValidatorTypeOK, ReviewRecords
    <3>3. AsksDeletion(r)'
      BY <3>1, <3>2 DEF AsksDeletion, At, PodOf, Ownerless
    <3>4. deleter'.id = DeletedSecret(r)
      BY <2>2 DEF SendDelete, DeleterReceives
    <3> QED
      BY <3>2, <3>3, <3>4 DEF DeleterWanted, DeletionWanted, DeletedSecret, PodOf
  <2> QED
    BY <2>1, <2>2, DeleterSteps DEF DeleterWanted
<1>5. TruststoresWanted'
  <2> SUFFICES ASSUME NEW t \in TruststoreIds, truststores'[t] # None
               PROVE  TruststoreWanted(t, truststores[t])'
    BY DEF TruststoresWanted
  <2>1. ASSUME NEW w, TruststoreWanted(t, w), truststores'[t] = w
        PROVE  TruststoreWanted(t, truststores[t])'
    <3>1. TruststoreWanted(t, w)'
      BY <2>1, WantedStays
    <3> QED
      BY <2>1, <3>1 DEF TruststoreWanted
  <2>2. CASE truststores'[t] = truststores[t]
    BY <2>1, <2>2 DEF TruststoresWanted
  <2>3. CASE IssueTruststore(t)
    <3>1. PICK i \in ObjectIds : /\ i = TruststorePasswordSecretName(t.ns, t.base)
                                /\ Exists(i) /\ truststores' = [truststores EXCEPT ![t] = objects[i].data]
      BY <2>3, NamesAreIds DEF IssueTruststore, TruststoreIds
    <3>2. Wanted(i, objects[i].owner, objects[i].data)
      BY <3>1 DEF ObjectsWanted
    <3>3. TruststoreWanted(t, objects[i].data)
      BY <3>1, <3>2, TruststoreFromPassword
    <3>4. truststores'[t] = objects[i].data
      BY <3>1 DEF TypeOK, ClusterTypeOK
    <3> QED
      BY <2>1, <3>3, <3>4
  <2> QED
    BY <2>2, <2>3, TruststoreSteps
<1> QED
  BY <1>1, <1>2, <1>3, <1>4, <1>5

LEMMA BasicsInvariant == Spec => [](TypeOK /\ HandlerInv /\ NothingUnasked)
<1>1. Init => TypeOK /\ HandlerInv /\ NothingUnasked
  BY TypeInit, HandlerInvInit, UnaskedInit
<1>2. TypeOK /\ HandlerInv /\ NothingUnasked /\ [Next]_vars => (TypeOK /\ HandlerInv /\ NothingUnasked)'
  BY TypeStep, HandlerInvStep, UnaskedStep
<1> QED
  BY <1>1, <1>2, PTL DEF Spec

(***************************************************************************)
(* Nothing is stored, and no worker holds a request, that no review of a   *)
(* pod with injection asked for.                                           *)
(***************************************************************************)
THEOREM NothingUnaskedEver == Spec => []NothingUnasked
BY BasicsInvariant, PTL

(***************************************************************************)
(* Nothing but the garbage collector and an asked-for deletion removes     *)
(* anything.                                                               *)
(***************************************************************************)
THEOREM OnlyAskedDeletionsEver == Spec => OnlyAskedDeletions
<1>1. ASSUME TypeOK, NothingUnasked, [Next]_vars, NEW i \in ObjectIds, Exists(i), ~Exists(i)'
      PROVE  objects[i].owner \in dead \/ (i.kind = "ca" /\ DeletionWanted(i))
  <2>1. objects \in [ObjectIds -> Objects \cup {None}] /\ None \notin Objects
    BY <1>1, ClusterAssumption DEF TypeOK, ClusterTypeOK
  <2>2. ASSUME NEW j \in ObjectIds, NEW o \in Objects, Stores(j, o) PROVE FALSE
    BY <1>1, <2>1, <2>2 DEF Stores, Exists
  <2>3. ~UNCHANGED objects
    BY <1>1 DEF Exists
  <2>4. ~(creator.pc = "call" /\ Stores(creator.req.id, NewSecret(creator.req)))
    BY <1>1, <2>2, RequestTypes DEF TypeOK, CreatorTypeOK
  <2>5. ~(certCreator.pc = "call" /\ Stores(CertificateId(certCreator.info), NewCertificate(certCreator.info)))
    BY <1>1, <2>2, RequestTypes DEF TypeOK, CertCreatorTypeOK
  <2>6. ASSUME NEW j, Removes(j) PROVE i = j
    BY <1>1, <2>1, <2>6 DEF Removes, Exists
  <2>7. CASE deleter.pc = "call" /\ Removes(deleter.id)
    <3>1. i = deleter.id /\ DeletionWanted(deleter.id)
      BY <1>1, <2>6, <2>7 DEF NothingUnasked
    <3>2. i.kind = "ca"
      BY <3>1 DEF DeletionWanted, DeletedSecret, SecretName
    <3> QED
      BY <3>1, <3>2
  <2>8. CASE \E j \in ObjectIds : objects[j].owner \in dead /\ Removes(j)
    BY <2>6, <2>8
  <2> QED
    BY <1>1, <2>3, <2>4, <2>5, <2>7, <2>8, ObjectSteps
<1>2. TypeOK /\ NothingUnasked /\ [Next]_vars =>
        [\A i \in ObjectIds : Exists(i) /\ ~Exists(i)' =>
            \/ objects[i].owner \in dead
            \/ i.kind = "ca" /\ DeletionWanted(i)]_vars
  BY <1>1
<1> QED
  BY <1>2, BasicsInvariant, PTL DEF Spec, OnlyAskedDeletions

-----------------------------------------------------------------------------
(***************************************************************************)
(* Accounting: what is under way stays under way, or is stored, or is in   *)
(* the log.                                                                *)
(***************************************************************************)
UnderWay(id) == id \in InCreator \/ id \in InCertCreator \/ id \in dropped

LEMMA HandlersHandOver ==
    ASSUME NEW r \in Reviews, HandlerStep(r), UNCHANGED dropped, NEW id, UnderWay(id)
    PROVE  UnderWay(id)'
<1>1. CASE SendSecret(r)
  BY <1>1 DEF SendSecret, CreatorReceives, UnderWay, InCreator, InCertCreator
<1>2. CASE SendCert(r)
  BY <1>2 DEF SendCert, CertCreatorReceives, UnderWay, InCreator, InCertCreator
<1>3. CASE UNCHANGED <<creator, certCreator>>
  BY <1>3 DEF UnderWay, InCreator, InCertCreator
<1> QED
  BY <1>1, <1>2, <1>3 DEF HandlerStep, CloseSecret, ClosePanics, CloseCert, CloseDelete, Dispatch,
     SendDelete, Resolve, ResolveFails, HandlerPanics

LEMMA CreatorHandsOver ==
    ASSUME TypeOK, CreatorStep, UNCHANGED certCreator, NEW id \in ObjectIds, UnderWay(id)
    PROVE  UnderWay(id)' \/ Exists(id)'
<1>1. dropped \subseteq dropped' /\ InCertCreator' = InCertCreator
  BY DEF CreatorStep, CreateSucceeds, CreateFindsSecret, CreateFails, CreatorExits, InCertCreator
<1>2. CASE id \in InCreator
  <2>1. creator.pc = "call" /\ id = creator.req.id /\ NewSecret(creator.req) \in Objects
    BY <1>2, RequestTypes DEF InCreator, TypeOK, CreatorTypeOK
  <2>2. CASE CreateSucceeds
    BY <2>1, <2>2, ClusterAssumption DEF CreateSucceeds, Stores, Exists, TypeOK, ClusterTypeOK
  <2>3. CASE CreateFindsSecret
    BY <2>1, <2>3 DEF CreateFindsSecret, Exists
  <2>4. CASE CreateFails
    BY <2>1, <2>4 DEF CreateFails, UnderWay
  <2>5. CASE CreatorExits
    BY <2>1, <2>5 DEF CreatorExits
  <2> QED
    BY <2>2, <2>3, <2>4, <2>5 DEF CreatorStep
<1> QED
  BY <1>1, <1>2 DEF UnderWay

LEMMA CertCreatorHandsOver ==
    ASSUME TypeOK, CertCreatorStep, NEW id \in ObjectIds, UnderWay(id)
    PROVE  UnderWay(id)' \/ Exists(id)'
<1> DEFINE info == certCreator.info
<1>1. certCreator.pc = "call" => CertificateId(info) \in ObjectIds /\ NewCertificate(info) \in Objects
  BY RequestTypes DEF TypeOK, CertCreatorTypeOK
<1>2. CASE SendPassword
  <2>1. certCreator.pc = "send" /\ creator.pc = "receive" /\ dropped' = dropped
    BY <1>2 DEF SendPassword, CreatorReceives
  <2>2. certCreator'.pc = "call" /\ certCreator'.info = info
    BY <1>2 DEF SendPassword, TypeOK, CertCreatorTypeOK
  <2>3. creator'.pc = "call" /\ creator'.req.id = PasswordRequest(info).id
    BY <1>2 DEF SendPassword, CreatorReceives
  <2>4. InCreator' = {PasswordRequest(info).id} /\ InCertCreator' = {CertificateId(info)}
    BY <2>2, <2>3 DEF InCreator, InCertCreator
  <2>5. InCreator = {} /\ InCertCreator = {PasswordRequest(info).id, CertificateId(info)}
    BY <2>1 DEF InCreator, InCertCreator
  <2> QED
    BY <2>1, <2>4, <2>5 DEF UnderWay
<1>3. CASE SendPanics
  BY <1>3 DEF SendPanics, UnderWay, InCreator, InCertCreator
<1>4. CASE CertificateCreated
  <2>1. CertificateId(info) = id => Exists(id)'
    BY <1>1, <1>4, ClusterAssumption DEF CertificateCreated, Stores, Exists, TypeOK, ClusterTypeOK
  <2>2. InCertCreator = {CertificateId(info)} /\ InCreator' = InCreator /\ dropped' = dropped
    BY <1>4 DEF CertificateCreated, InCertCreator, InCreator
  <2> QED
    BY <2>1, <2>2 DEF UnderWay
<1>5. CASE CertificateFound
  <2>1. CertificateId(info) = id => Exists(id)'
    BY <1>5 DEF CertificateFound, Exists
  <2>2. InCertCreator = {CertificateId(info)} /\ InCreator' = InCreator /\ dropped' = dropped
    BY <1>5 DEF CertificateFound, InCertCreator, InCreator
  <2> QED
    BY <2>1, <2>2 DEF UnderWay
<1>6. CASE CertificateRefused \/ CertificateInterrupted
  <2>1. InCertCreator = {CertificateId(info)} /\ InCreator' = InCreator
        /\ dropped' = dropped \cup {CertificateId(info)}
    BY <1>6 DEF CertificateRefused, CertificateInterrupted, InCertCreator, InCreator
  <2> QED
    BY <2>1 DEF UnderWay
<1>7. CASE CertCreatorExits
  BY <1>7 DEF CertCreatorExits, UnderWay, InCreator, InCertCreator
<1> QED
  BY <1>2, <1>3, <1>4, <1>5, <1>6, <1>7 DEF CertCreatorStep

LEMMA UnderWayStays ==
    ASSUME TypeOK, [Next]_vars, NEW id \in ObjectIds, UnderWay(id)
    PROVE  UnderWay(id)' \/ Exists(id)'
<1>1. CASE UNCHANGED <<creatorVars, certCreator>>
  BY <1>1 DEF creatorVars, UnderWay, InCreator, InCertCreator
<1>2. ASSUME \/ UNCHANGED vars
             \/ \E p \in Pods : Submit(p) \/ AddTruststore(p) \/ Unreachable(p)
             \/ \E r \in Reviews, p \in Pods, op \in Operations, dry \in BOOLEAN : Review(r, p, op, dry)
             \/ \E r \in Reviews : HangUp(r) \/ Settle(r)
             \/ ClusterStep \/ DeleteWorker \/ ProcessStep \/ ShutdownStep \/ Restart \/ Rest
      PROVE  UNCHANGED <<creatorVars, certCreator>>
  BY <1>2 DEF Submit, AddTruststore, Unreachable, Review, HangUp, Settle, ClusterStep, DeleteWorker, ProcessStep,
              ShutdownStep, Restart, Rest, vars
<1>3. ASSUME NEW r \in Reviews, Handler(r) PROVE UnderWay(id)'
  BY <1>3, HandlersHandOver DEF Handler
<1>4. CASE SecretWorker
  BY <1>4, CreatorHandsOver DEF SecretWorker
<1>5. CASE CertWorker
  BY <1>5, CertCreatorHandsOver DEF CertWorker
<1>6. CASE RunReturns \/ Kill
  BY <1>6 DEF RunReturns, Kill, Die, UnderWay
<1> QED
  BY <1>1, <1>2, <1>3, <1>4, <1>5, <1>6 DEF Next

LEMMA DeadGrows == [Next]_vars => dead \subseteq dead'
<1> SUFFICES ASSUME [Next]_vars PROVE dead \subseteq dead'
  OBVIOUS
<1>1. CASE ClusterStep
  BY <1>1 DEF ClusterStep, OwnerDeleted, CollectGarbage, Reparent, IssueTruststore, RotateCA
<1>2. CASE UNCHANGED vars
  BY <1>2 DEF vars, clusterVars
<1> QED
  BY <1>1, <1>2 DEF Next, Submit, AddTruststore, Unreachable, Review, HangUp, Settle, Handler, SecretWorker,
     DeleteWorker, CertWorker, ProcessStep, ShutdownStep, RunReturns, Kill, Die, Restart, Rest, vars,
     clusterVars

LEMMA OrphanedStays ==
    ASSUME TypeOK, HandlerInv, [Next]_vars, NEW id \in ObjectIds, Orphaned(id)
    PROVE  Orphaned(id)'
<1>1. PICK r \in Reviews : /\ Provides(r)
                           /\ id.ns = PodOf(r).ns /\ id.base = reviews[r].root.name
                           /\ reviews[r].root.uid \in dead
  BY DEF Orphaned
<1>2. /\ Provides(r)' /\ reviews'[r].root = reviews[r].root /\ reviews'[r].pod = reviews[r].pod
  BY <1>1, AskingStays
<1> QED
  BY <1>1, <1>2, DeadGrows DEF Orphaned, PodOf

(***************************************************************************)
(* What a request named is accounted for ever after.                       *)
(***************************************************************************)
LEMMA AccountedStays ==
    ASSUME TypeOK, HandlerInv, NothingUnasked, [Next]_vars, NEW id \in ObjectIds, Accounted(id)
    PROVE  Accounted(id)'
<1>1. CASE UnderWay(id)
  BY <1>1, UnderWayStays DEF UnderWay, Accounted
<1>2. CASE DeletionWanted(id)
  BY <1>2, WantedStays DEF Accounted
<1>3. CASE Orphaned(id)
  BY <1>3, OrphanedStays DEF Accounted
<1>4. CASE Exists(id)
  <2>1. objects \in [ObjectIds -> Objects \cup {None}] /\ None \notin Objects
    BY ClusterAssumption DEF TypeOK, ClusterTypeOK
  <2>2. objects[id].owner \in dead => Orphaned(id)
    <3>1. PICK r \in Reviews :
            /\ Provides(r)
            /\ objects[id].owner = reviews[r].root.uid
            /\ id \in {SecretRequest(r).id, PasswordRequest(CertInfo(r)).id, CertificateId(CertInfo(r))}
      BY <1>4 DEF NothingUnasked, Wanted
    <3>2. id.ns = PodOf(r).ns /\ id.base = reviews[r].root.name
      BY <3>1 DEF SecretRequest, PasswordRequest, CertificateId, CertInfo, SecretName,
                  TruststorePasswordSecretName, CertificateName
    <3> QED
      BY <3>1, <3>2 DEF Orphaned
  <2>3. ASSUME NEW j \in ObjectIds, NEW o \in Objects, Stores(j, o) PROVE Exists(id)'
    BY <1>4, <2>1, <2>3 DEF Stores, Exists
  <2>4. ASSUME NEW j, Removes(j) PROVE Exists(id)' \/ id = j
    BY <1>4, <2>1, <2>4 DEF Removes, Exists
  <2>5. CASE UNCHANGED objects
    BY <1>4, <2>5 DEF Exists, Accounted
  <2>6. CASE creator.pc = "call" /\ Stores(creator.req.id, NewSecret(creator.req))
    BY <2>3, <2>6, RequestTypes DEF TypeOK, CreatorTypeOK, Accounted
  <2>7. CASE certCreator.pc = "call" /\ Stores(CertificateId(certCreator.info), NewCertificate(certCreator.info))
    BY <2>3, <2>7, RequestTypes DEF TypeOK, CertCreatorTypeOK, Accounted
  <2>8. CASE deleter.pc = "call" /\ Removes(deleter.id)
    BY <1>2, <2>4, <2>8 DEF NothingUnasked, Accounted
  <2>9. CASE \E j \in ObjectIds : objects[j].owner \in dead /\ Removes(j)
    BY <1>3, <2>2, <2>4, <2>9 DEF Accounted
  <2> QED
    BY <2>5, <2>6, <2>7, <2>8, <2>9, ObjectSteps
<1> QED
  BY <1>1, <1>2, <1>3, <1>4 DEF Accounted, UnderWay

-----------------------------------------------------------------------------
(***************************************************************************)
(* A handler that got past a send finds what it sent accounted for.        *)
(***************************************************************************)
SentInv ==
    \A r \in Reviews :
        /\ At(r, "sendCert") => Accounted(SecretRequest(r).id)
        /\ At(r, "allowed") /\ reviews[r].op = "CREATE" /\ ~reviews[r].dry /\ PodOf(r).enabled =>
              /\ Provides(r)
              /\ Accounted(SecretRequest(r).id)
              /\ PodOf(r).jvm => /\ Accounted(CertificateId(CertInfo(r)))
                                 /\ Accounted(PasswordRequest(CertInfo(r)).id)

(***************************************************************************)
(* A live pod was let in by a review, and while its owners are left alone  *)
(* its volumes and its reviews name the same root owner.                   *)
(***************************************************************************)
PodInv ==
    \A p \in Pods :
        /\ Live(p) => \E r \in Reviews : /\ reviews[r].pod = p
                                         /\ reviews[r].op = "CREATE"
                                         /\ ~reviews[r].dry
                                         /\ At(r, "allowed")
        /\ pods[p].st = "mutating" => Manifest[p].enabled /\ Manifest[p].jvm
        /\ Unmoved(p) =>
              /\ \A r \in Reviews : reviews[r].pod = p /\ reviews[r].root # None
                                       => reviews[r].root = Manifest[p].root
              /\ pods[p].ca # None => Manifest[p].enabled /\ pods[p].ca = Manifest[p].root.name
              /\ pods[p].truststore # None =>
                    /\ Manifest[p].enabled /\ Manifest[p].jvm
                    /\ pods[p].truststore = Manifest[p].root.name

LEMMA ProvisionedFromParts == TypeOK /\ SentInv /\ PodInv => AdmittedIsProvisioned
<1> SUFFICES ASSUME TypeOK, SentInv, PodInv, NEW p \in Pods, Live(p), Unmoved(p)
             PROVE  /\ pods[p].ca # None => Accounted(SecretName(Manifest[p].ns, pods[p].ca))
                    /\ pods[p].truststore # None =>
                          /\ Accounted(CertificateName(Manifest[p].ns, pods[p].truststore))
                          /\ Accounted(TruststorePasswordSecretName(Manifest[p].ns, pods[p].truststore))
  BY DEF AdmittedIsProvisioned
<1>1. PICK r \in Reviews : reviews[r].pod = p /\ reviews[r].op = "CREATE" /\ ~reviews[r].dry /\ At(r, "allowed")
  BY DEF PodInv
<1>2. PodOf(r) = Manifest[p]
  BY <1>1 DEF PodOf
<1>3. Manifest[p].enabled => /\ Provides(r)
                             /\ reviews[r].root = Manifest[p].root
  BY <1>1, <1>2 DEF SentInv, PodInv, Provides
<1>4. ASSUME pods[p].ca # None PROVE Accounted(SecretName(Manifest[p].ns, pods[p].ca))
  <2>1. SecretRequest(r).id = SecretName(Manifest[p].ns, pods[p].ca)
    BY <1>2, <1>3, <1>4 DEF PodInv, SecretRequest
  <2> QED
    BY <1>1, <1>2, <1>4, <2>1 DEF SentInv, PodInv
<1>5. ASSUME pods[p].truststore # None
      PROVE  /\ Accounted(CertificateName(Manifest[p].ns, pods[p].truststore))
             /\ Accounted(TruststorePasswordSecretName(Manifest[p].ns, pods[p].truststore))
  <2>1. /\ CertificateId(CertInfo(r)) = CertificateName(Manifest[p].ns, pods[p].truststore)
        /\ PasswordRequest(CertInfo(r)).id = TruststorePasswordSecretName(Manifest[p].ns, pods[p].truststore)
    BY <1>2, <1>3, <1>5 DEF PodInv, CertificateId, PasswordRequest, CertInfo
  <2>2. /\ Accounted(CertificateId(CertInfo(r)))
        /\ Accounted(PasswordRequest(CertInfo(r)).id)
    BY <1>1, <1>2, <1>5 DEF SentInv, PodInv
  <2> QED
    BY <2>1, <2>2
<1> QED
  BY <1>4, <1>5

(***************************************************************************)
(* How a handler arrives at its second send, and at a positive verdict.    *)
(***************************************************************************)
LEMMA ReviewArrives ==
    ASSUME TypeOK, [Next]_vars, NEW s \in Reviews
    PROVE  /\ At(s, "sendCert")' => At(s, "sendCert") \/ SendSecret(s)
           /\ At(s, "allowed")' => \/ At(s, "allowed")
                                   \/ Dispatch(s) \/ Resolve(s) \/ SendDelete(s)
                                   \/ SendSecret(s) \/ SendCert(s)
<1> USE DEF At
<1>1. reviews \in [Reviews -> ReviewRecords] /\ reviews[s] \in ReviewRecords
  BY DEF TypeOK, ValidatorTypeOK
<1>2. CASE UNCHANGED reviews
  BY <1>2
<1>3. ASSUME NEW r \in Reviews, Begins(r) PROVE reviews'[s].pc \in {reviews[s].pc, "start"}
  BY <1>1, <1>3 DEF Begins
<1>4. ASSUME NEW r \in Reviews, StopsWaiting(r) PROVE reviews'[s].pc = reviews[s].pc
  BY <1>1, <1>4 DEF StopsWaiting, ReviewRecords
<1>5. CASE AllFail
  BY <1>1, <1>5 DEF AllFail, ReviewRecords
<1>6. ASSUME NEW r \in Reviews, HandlerStep(r), r # s PROVE reviews'[s].pc = reviews[s].pc
  BY <1>1, <1>6, HandlerGoes DEF Dispatch, Resolve, Goto
<1>7. CASE HandlerStep(s)
  <2>1. ASSUME NEW pc, Goto(s, pc) PROVE reviews'[s].pc = pc
    BY <1>1, <2>1 DEF Goto, ReviewRecords
  <2>2. CASE CloseSecret(s) \/ ClosePanics(s) \/ CloseCert(s) \/ CloseDelete(s) \/ ResolveFails(s) \/ HandlerPanics(s)
    BY <2>1, <2>2 DEF CloseSecret, ClosePanics, CloseCert, CloseDelete, ResolveFails, HandlerPanics
  <2>3. CASE Dispatch(s)
    <3>1. PICK pc \in {"allowed", "sendDelete", "resolve", "failed"} : Goto(s, pc)
      BY <2>3 DEF Dispatch
    <3> QED
      BY <2>1, <2>3, <3>1
  <2>4. CASE Resolve(s)
    <3>1. reviews' = [reviews EXCEPT ![s] =
              [reviews[s] EXCEPT !.root = root[reviews[s].pod],
                                 !.pc = IF reviews[s].dry THEN "allowed" ELSE "sendSecret"]]
      BY <2>4 DEF Resolve
    <3>2. reviews'[s].pc \in {"allowed", "sendSecret"}
      BY <1>1, <3>1 DEF ReviewRecords
    <3> QED
      BY <2>4, <3>2
  <2>5. CASE SendDelete(s) \/ SendCert(s)
    BY <2>1, <2>5 DEF SendDelete, SendCert
  <2> QED
    BY <1>7, <2>2, <2>3, <2>4, <2>5 DEF HandlerStep
<1> QED
  BY <1>2, <1>3, <1>4, <1>5, <1>6, <1>7, ReviewSteps

LEMMA ProvidedIds ==
    ASSUME TypeOK, HandlerInv, NEW r \in Reviews, Provides(r)
    PROVE  /\ SecretRequest(r).id \in ObjectIds
           /\ CertificateId(CertInfo(r)) \in ObjectIds
           /\ PasswordRequest(CertInfo(r)).id \in ObjectIds
<1>1. reviews[r].pod \in Pods /\ reviews[r].root \in OwnerRefs
  BY DEF Provides, HandlerInv, TypeOK, ValidatorTypeOK, ReviewRecords
<1> QED
  BY <1>1, ManifestType, NamesAreIds DEF SecretRequest, CertificateId, CertInfo, PasswordRequest, PodOf

LEMMA SentInvInit == Init => SentInv
BY DEF Init, ValidatorInit, SentInv, At

LEMMA SentInvStep == TypeOK /\ HandlerInv /\ NothingUnasked /\ SentInv /\ [Next]_vars => SentInv'
<1> SUFFICES ASSUME TypeOK, HandlerInv, NothingUnasked, SentInv, [Next]_vars, NEW r \in Reviews
             PROVE  /\ At(r, "sendCert")' => Accounted(SecretRequest(r).id)'
                    /\ At(r, "allowed")' /\ reviews'[r].op = "CREATE" /\ ~reviews'[r].dry /\ PodOf(r)'.enabled =>
                          /\ Provides(r)'
                          /\ Accounted(SecretRequest(r).id)'
                          /\ PodOf(r)'.jvm => /\ Accounted(CertificateId(CertInfo(r)))'
                                              /\ Accounted(PasswordRequest(CertInfo(r)).id)'
  BY DEF SentInv
<1> DEFINE ca == SecretRequest(r).id
           ct == CertificateId(CertInfo(r))
           pw == PasswordRequest(CertInfo(r)).id
<1>1. reviews[r].pc # "idle" => Follows(r)
  BY ReviewFollows
<1>2. Provides(r) => /\ Provides(r)' /\ PodOf(r)' = PodOf(r)
                     /\ ca' = ca /\ ct' = ct /\ pw' = pw
                     /\ ca \in ObjectIds /\ ct \in ObjectIds /\ pw \in ObjectIds
  BY AskingStays, ProvidedIds DEF PodOf, SecretRequest, CertInfo, CertificateId, PasswordRequest
<1>3. ASSUME NEW id \in ObjectIds, Accounted(id) PROVE Accounted(id)'
  BY <1>3, AccountedStays
<1>4. Provides(r) /\ Accounted(ca) => Accounted(ca)'
  <2>1. PICK i : i = ca
    OBVIOUS
  <2>2. Provides(r) /\ Accounted(i) => Accounted(i)'
    BY <1>2, <1>3, <2>1
  <2> QED
    BY <1>2, <2>1, <2>2
<1>5. Provides(r) /\ Accounted(ct) => Accounted(ct)'
  <2>1. PICK i : i = ct
    OBVIOUS
  <2>2. Provides(r) /\ Accounted(i) => Accounted(i)'
    BY <1>2, <1>3, <2>1
  <2> QED
    BY <1>2, <2>1, <2>2
<1>6. Provides(r) /\ Accounted(pw) => Accounted(pw)'
  <2>1. PICK i : i = pw
    OBVIOUS
  <2>2. Provides(r) /\ Accounted(i) => Accounted(i)'
    BY <1>2, <1>3, <2>1
  <2> QED
    BY <1>2, <2>1, <2>2
<1> HIDE DEF ca, ct, pw
<1>7. SendSecret(r) => Provides(r) /\ Accounted(ca)'
  <2> SUFFICES ASSUME SendSecret(r) PROVE Provides(r) /\ Accounted(ca)'
    OBVIOUS
  <2>1. Provides(r)
    BY DEF SendSecret, HandlerInv, At
  <2>2. creator'.pc = "call" /\ creator'.req.id = ca
    BY DEF SendSecret, CreatorReceives, ca
  <2>3. creator'.req.id = ca'
    BY <1>2, <2>1, <2>2
  <2> QED
    BY <2>1, <2>2, <2>3 DEF Accounted, InCreator
<1>8. SendCert(r) => Provides(r) /\ PodOf(r).jvm /\ Accounted(ca) /\ Accounted(ct)' /\ Accounted(pw)'
  <2> SUFFICES ASSUME SendCert(r)
               PROVE Provides(r) /\ PodOf(r).jvm /\ Accounted(ca) /\ Accounted(ct)' /\ Accounted(pw)'
    OBVIOUS
  <2>1. Provides(r) /\ PodOf(r).jvm /\ Accounted(ca)
    BY DEF SendCert, HandlerInv, SentInv, At, ca
  <2>2. certCreator'.pc = "send" /\ certCreator'.info = CertInfo(r)
    BY DEF SendCert, CertCreatorReceives
  <2>3. InCertCreator' = {pw, ct}
    BY <2>2 DEF InCertCreator, ct, pw
  <2>4. ct' \in InCertCreator' /\ pw' \in InCertCreator'
    BY <1>2, <2>1, <2>3
  <2> QED
    BY <2>1, <2>4 DEF Accounted
<1>9. At(r, "sendCert")' => Accounted(ca)'
  <2>1. At(r, "sendCert") => Provides(r) /\ Accounted(ca)
    BY DEF HandlerInv, SentInv, At, ca
  <2> QED
    BY <1>4, <1>7, <2>1, ReviewArrives
<1>10. ASSUME At(r, "allowed")', reviews'[r].op = "CREATE", ~reviews'[r].dry, PodOf(r)'.enabled
       PROVE  /\ Provides(r)' /\ Accounted(ca)'
              /\ PodOf(r)'.jvm => Accounted(ct)' /\ Accounted(pw)'
  <2>1. CASE At(r, "allowed")
    <3>1. reviews[r].op = "CREATE" /\ ~reviews[r].dry /\ PodOf(r).enabled
      BY <1>1, <1>10, <2>1 DEF Follows, At, PodOf
    <3>2. /\ Provides(r) /\ Accounted(ca)
          /\ PodOf(r).jvm => Accounted(ct) /\ Accounted(pw)
      BY <2>1, <3>1 DEF SentInv, ca, ct, pw
    <3> QED
      BY <1>2, <1>4, <1>5, <1>6, <3>2
  <2>2. CASE SendSecret(r)
    <3>1. PodOf(r).jvm => reviews'[r].pc = "sendCert"
      BY <2>2 DEF SendSecret, Goto, TypeOK, ValidatorTypeOK, ReviewRecords
    <3> QED
      BY <1>2, <1>7, <1>10, <2>2, <3>1 DEF At
  <2>3. CASE SendCert(r)
    BY <1>2, <1>4, <1>8, <2>3
  <2>4. CASE Dispatch(r) \/ Resolve(r) \/ SendDelete(r)
    <3>1. /\ reviews[r].pod \in Pods
          /\ reviews[r].op = "CREATE" /\ ~reviews[r].dry /\ PodOf(r).enabled
      BY <1>1, <1>10, <2>4 DEF Follows, PodOf, Dispatch, Resolve, SendDelete, At, TypeOK, ValidatorTypeOK
    <3>2. CASE Dispatch(r)
      <4>1. Goto(r, "resolve")
        BY <3>1, <3>2 DEF Dispatch
      <4> QED
        BY <1>10, <4>1 DEF Goto, At, TypeOK, ValidatorTypeOK, ReviewRecords
    <3>3. CASE Resolve(r)
      <4>1. reviews' = [reviews EXCEPT ![r] =
                [reviews[r] EXCEPT !.root = root[reviews[r].pod], !.pc = "sendSecret"]]
        BY <3>1, <3>3 DEF Resolve
      <4>2. reviews'[r].pc = "sendSecret"
        BY <4>1 DEF TypeOK, ValidatorTypeOK, ReviewRecords
      <4> QED
        BY <1>10, <4>2 DEF At
    <3>4. CASE SendDelete(r)
      BY <3>1, <3>4 DEF SendDelete, HandlerInv, At
    <3> QED
      BY <2>4, <3>2, <3>3, <3>4
  <2> QED
    BY <1>10, <2>1, <2>2, <2>3, <2>4, ReviewArrives
<1> QED
  BY <1>9, <1>10 DEF ca, ct, pw

(***************************************************************************)
(* How a step can change a pod: the mutating webhook gives it its volumes, *)
(* and it becomes live with the positive answer to a creation.             *)
(***************************************************************************)
VolumesStay(p) == pods'[p].ca = pods[p].ca /\ pods'[p].truststore = pods[p].truststore
Admits(r, p) == /\ reviews[r].pod = p
                /\ reviews[r].op = "CREATE"
                /\ ~reviews[r].dry
                /\ At(r, "allowed")

LEMMA PodSteps ==
    ASSUME TypeOK, [Next]_vars, NEW p \in Pods
    PROVE  /\ VolumesStay(p) \/ Submit(p) \/ AddTruststore(p)
           /\ pods'[p].st = "mutating" => pods[p].st = "mutating" \/ Submit(p)
           /\ Live(p)' => Live(p) \/ \E r \in Reviews : Admits(r, p)
<1> USE DEF VolumesStay, Live
<1>1. pods \in [Pods -> PodRecords] /\ pods[p] \in PodRecords
  BY DEF TypeOK, ClusterTypeOK
<1>2. CASE UNCHANGED pods
  BY <1>2
<1>3. ASSUME NEW q, NEW st, pods' = [pods EXCEPT ![q].st = st]
      PROVE  VolumesStay(p) /\ (q # p => pods'[p] = pods[p]) /\ (q = p => pods'[p].st = st)
  BY <1>1, <1>3 DEF PodRecords
<1> DEFINE Same == /\ VolumesStay(p) /\ (Live(p)' => Live(p))
                   /\ pods'[p].st = "mutating" => pods[p].st = "mutating"
<1>4. ASSUME NEW q \in Pods, Submit(q) \/ AddTruststore(q)
      PROVE  /\ Live(p)' => Live(p)
             /\ q # p => Same
             /\ q = p => Submit(p) \/ (AddTruststore(p) /\ pods[p].st = "mutating")
  <2>1. \E name, st : /\ st # "live"
                      /\ \/ pods' = [pods EXCEPT ![q].ca = name, ![q].st = st]
                         \/ pods' = [pods EXCEPT ![q].truststore = name, ![q].st = st]
    <3>1. CASE Submit(q)
      <4>1. PICK name : pods' = [pods EXCEPT
               ![q].ca = name,
               ![q].st = IF name # None /\ Manifest[q].jvm THEN "mutating" ELSE "submitted"]
        BY <3>1 DEF Submit
      <4>2. PICK st : /\ st = IF name # None /\ Manifest[q].jvm THEN "mutating" ELSE "submitted"
                      /\ st # "live"
        OBVIOUS
      <4> QED
        BY <4>1, <4>2
    <3>2. CASE AddTruststore(q)
      BY <3>2 DEF AddTruststore
    <3> QED
      BY <1>4, <3>1, <3>2
  <2>2. q # p => pods'[p] = pods[p]
    BY <1>1, <2>1
  <2>3. pods'[q].st # "live"
    BY <1>1, <2>1 DEF PodRecords
  <2>4. AddTruststore(q) => pods[q].st = "mutating"
    BY DEF AddTruststore
  <2> QED
    BY <1>4, <2>2, <2>3, <2>4
<1>5. ASSUME NEW q \in Pods, Unreachable(q) PROVE Same
  BY <1>3, <1>5 DEF Unreachable
<1>6. ASSUME NEW r \in Reviews, NEW q \in Pods, NEW op \in Operations, NEW dry \in BOOLEAN,
             Review(r, q, op, dry)
      PROVE  Same
  <2>1. CASE pods' = pods
    BY <2>1
  <2>2. CASE pods' = [pods EXCEPT ![q].st = "reviewing"]
    BY <1>3, <2>2
  <2> QED
    BY <1>6, <2>1, <2>2 DEF Review
<1>7. ASSUME NEW r \in Reviews, HangUp(r) PROVE Same
  <2>1. CASE pods' = pods
    BY <2>1
  <2>2. CASE pods' = [pods EXCEPT ![reviews[r].pod].st = "gone"]
    BY <1>3, <2>2
  <2> QED
    BY <1>7, <2>1, <2>2 DEF HangUp
<1>8. ASSUME NEW r \in Reviews, Settle(r)
      PROVE  /\ VolumesStay(p) /\ (Live(p)' => Live(p) \/ Admits(r, p))
             /\ pods'[p].st = "mutating" => pods[p].st = "mutating"
  <2>1. PICK st \in NextPodStates(r) : pods' = [pods EXCEPT ![reviews[r].pod].st = st]
    BY <1>8 DEF Settle
  <2>2. VolumesStay(p) /\ (reviews[r].pod # p => pods'[p] = pods[p]) /\ (reviews[r].pod = p => pods'[p].st = st)
    BY <1>3, <2>1
  <2>3. reviews[r].pod = p /\ st = "live" => Live(p) \/ Admits(r, p)
    BY <2>1 DEF NextPodStates, Granted, Admits
  <2>4. reviews[r].pod = p => st # "mutating" \/ pods[p].st = "mutating"
    BY <2>1 DEF NextPodStates
  <2> QED
    BY <2>2, <2>3, <2>4
<1>9. ASSUME \/ \E r \in Reviews : Handler(r)
             \/ ClusterStep \/ SecretWorker \/ DeleteWorker \/ CertWorker
             \/ ProcessStep \/ ShutdownStep \/ Restart \/ Rest
             \/ UNCHANGED vars
      PROVE  UNCHANGED pods
  BY <1>9 DEF Handler, ClusterStep, OwnerDeleted, CollectGarbage, Reparent, IssueTruststore, RotateCA, SecretWorker, DeleteWorker,
              CertWorker, ProcessStep, ShutdownStep, Restart, Rest, vars, clusterVars
<1>10. CASE RunReturns \/ Kill
  BY <1>1, <1>10 DEF RunReturns, Kill, Die, PodRecords
<1> QED
  BY <1>2, <1>4, <1>5, <1>6, <1>7, <1>8, <1>9, <1>10 DEF Next

(***************************************************************************)
(* A pod moves to another root owner once, and its reviews have the one it *)
(* had when they looked.                                                   *)
(***************************************************************************)
LEMMA UnmovedWas == ASSUME TypeOK, [Next]_vars, NEW p \in Pods, Unmoved(p)' PROVE Unmoved(p)
<1>1. CASE UNCHANGED root
  BY <1>1 DEF Unmoved
<1>2. ASSUME NEW q \in Pods, NEW o \in Owners, Reparent(q, o) PROVE Unmoved(p)
  BY <1>2 DEF Reparent, Unmoved, TypeOK, ClusterTypeOK
<1>3. CASE ClusterStep
  BY <1>1, <1>2, <1>3 DEF ClusterStep, OwnerDeleted, CollectGarbage, IssueTruststore, RotateCA
<1>4. CASE UNCHANGED vars
  BY <1>1, <1>4 DEF vars, clusterVars
<1> QED
  BY <1>1, <1>3, <1>4 DEF Next, Submit, AddTruststore, Unreachable, Review, HangUp, Settle, Handler, SecretWorker,
     DeleteWorker, CertWorker, ProcessStep, ShutdownStep, RunReturns, Kill, Die, Restart, Rest, vars,
     clusterVars

LEMMA RootRead ==
    ASSUME TypeOK, HandlerInv, [Next]_vars, NEW r \in Reviews, reviews'[r].root # None
    PROVE  /\ reviews'[r].pod = reviews[r].pod
           /\ reviews'[r].root \in {reviews[r].root, root[reviews[r].pod]}
<1>1. reviews \in [Reviews -> ReviewRecords] /\ reviews[r] \in ReviewRecords
  BY DEF TypeOK, ValidatorTypeOK
<1>2. CASE UNCHANGED reviews
  BY <1>2
<1>3. ASSUME NEW s \in Reviews, Begins(s)
      PROVE  reviews'[r].pod = reviews[r].pod /\ reviews'[r].root = reviews[r].root
  BY <1>1, <1>3 DEF Begins
<1>4. ASSUME NEW s \in Reviews, StopsWaiting(s)
      PROVE  reviews'[r].pod = reviews[r].pod /\ reviews'[r].root = reviews[r].root
  BY <1>1, <1>4 DEF StopsWaiting, ReviewRecords
<1>5. CASE AllFail
  BY <1>1, <1>5 DEF AllFail, ReviewRecords
<1>6. ASSUME NEW s \in Reviews, NEW pc, Goto(s, pc)
      PROVE  reviews'[r].pod = reviews[r].pod /\ reviews'[r].root = reviews[r].root
  BY <1>1, <1>6 DEF Goto, ReviewRecords
<1>7. ASSUME NEW s \in Reviews, Resolve(s)
      PROVE  /\ reviews'[r].pod = reviews[r].pod
             /\ reviews'[r].root \in {reviews[r].root, root[reviews[r].pod]}
  <2>1. PICK pc : reviews' = [reviews EXCEPT ![s] = [reviews[s] EXCEPT !.root = root[reviews[s].pod], !.pc = pc]]
    BY <1>7 DEF Resolve
  <2> QED
    BY <1>1, <2>1 DEF ReviewRecords
<1>8. ASSUME NEW s \in Reviews, Dispatch(s) PROVE \E pc : Goto(s, pc)
  BY <1>8 DEF Dispatch
<1> QED
  BY <1>2, <1>3, <1>4, <1>5, <1>6, <1>7, <1>8, HandlerGoes, ReviewSteps

LEMMA PodInvInit == Init => PodInv
BY DEF Init, ClusterInit, ValidatorInit, PodInv, Live

LEMMA PodInvStep == TypeOK /\ HandlerInv /\ PodInv /\ [Next]_vars => PodInv'
<1> SUFFICES ASSUME TypeOK, HandlerInv, PodInv, [Next]_vars, NEW p \in Pods
             PROVE  /\ Live(p)' => \E r \in Reviews : Admits(r, p)'
                    /\ pods'[p].st = "mutating" => Manifest[p].enabled /\ Manifest[p].jvm
                    /\ Unmoved(p)' =>
                          /\ \A r \in Reviews : reviews'[r].pod = p /\ reviews'[r].root # None
                                                   => reviews'[r].root = Manifest[p].root
                          /\ pods'[p].ca # None => Manifest[p].enabled /\ pods'[p].ca = Manifest[p].root.name
                          /\ pods'[p].truststore # None =>
                                /\ Manifest[p].enabled /\ Manifest[p].jvm
                                /\ pods'[p].truststore = Manifest[p].root.name
  BY DEF PodInv, Admits
<1>1. ASSUME Live(p)' PROVE \E r \in Reviews : Admits(r, p)'
  <2>1. PICK r \in Reviews : Admits(r, p)
    BY <1>1, PodSteps DEF PodInv, Admits
  <2>2. Follows(r) /\ reviews[r].pc \in Answers
    BY <2>1, ReviewFollows DEF Admits, At, Answers
  <2> QED
    BY <2>1, <2>2 DEF Follows, Admits, At
<1>2. ASSUME Unmoved(p)', NEW r \in Reviews, reviews'[r].pod = p, reviews'[r].root # None
      PROVE  reviews'[r].root = Manifest[p].root
  <2>1. Unmoved(p)
    BY <1>2, UnmovedWas
  <2>2. reviews[r].pod = p /\ reviews'[r].root \in {reviews[r].root, root[p]}
    BY <1>2, RootRead
  <2> QED
    BY <1>2, <2>1, <2>2 DEF PodInv, Unmoved
<1>3. ASSUME Unmoved(p)'
      PROVE  /\ pods'[p].ca # None => Manifest[p].enabled /\ pods'[p].ca = Manifest[p].root.name
             /\ pods'[p].truststore # None =>
                   /\ Manifest[p].enabled /\ Manifest[p].jvm
                   /\ pods'[p].truststore = Manifest[p].root.name
  <2>1. Unmoved(p)
    BY <1>3, UnmovedWas
  <2>2. CASE VolumesStay(p)
    BY <2>1, <2>2 DEF PodInv, VolumesStay
  <2>3. WalkNames(p) \subseteq {Manifest[p].root.name, None}
    BY <2>1 DEF WalkNames, Unmoved
  <2>4. pods[p] \in PodRecords /\ pods \in [Pods -> PodRecords]
    BY DEF TypeOK, ClusterTypeOK
  <2>5. CASE Submit(p)
    <3>1. PICK name, st : /\ pods' = [pods EXCEPT ![p].ca = name, ![p].st = st]
                          /\ name \in IF Manifest[p].enabled THEN WalkNames(p) ELSE {None}
      BY <2>5 DEF Submit
    <3>2. pods'[p].ca = name /\ pods'[p].truststore = pods[p].truststore
      BY <2>4, <3>1 DEF PodRecords
    <3> QED
      BY <2>1, <2>3, <3>1, <3>2 DEF PodInv
  <2>6. CASE AddTruststore(p)
    <3>1. PICK name \in WalkNames(p) : pods' = [pods EXCEPT ![p].truststore = name, ![p].st = "submitted"]
      BY <2>6 DEF AddTruststore
    <3>2. pods'[p].ca = pods[p].ca /\ pods'[p].truststore = name
      BY <2>4, <3>1 DEF PodRecords
    <3> QED
      BY <2>1, <2>3, <2>6, <3>1, <3>2 DEF PodInv, AddTruststore
  <2> QED
    BY <2>2, <2>5, <2>6, PodSteps
<1>4. ASSUME pods'[p].st = "mutating" PROVE Manifest[p].enabled /\ Manifest[p].jvm
  <2>1. CASE Submit(p)
    <3>1. PICK name, st : /\ pods' = [pods EXCEPT ![p].ca = name, ![p].st = st]
                          /\ name \in IF Manifest[p].enabled THEN WalkNames(p) ELSE {None}
                          /\ st = IF name # None /\ Manifest[p].jvm THEN "mutating" ELSE "submitted"
      BY <2>1 DEF Submit
    <3>2. pods'[p].st = st
      BY <3>1 DEF TypeOK, ClusterTypeOK, PodRecords
    <3> QED
      BY <1>4, <3>1, <3>2
  <2> QED
    BY <1>4, <2>1, PodSteps DEF PodInv
<1> QED
  BY <1>1, <1>2, <1>3, <1>4

(***************************************************************************)
(* What a pod that was let in waits for is never forgotten, for every set  *)
(* of pods, names, owners and reviews and every combination of faults.     *)
(***************************************************************************)
THEOREM AdmittedIsProvisionedEver == Spec => []AdmittedIsProvisioned
<1>1. Init => SentInv /\ PodInv
  BY SentInvInit, PodInvInit
<1>2. TypeOK /\ HandlerInv /\ NothingUnasked /\ SentInv /\ PodInv /\ [Next]_vars => (SentInv /\ PodInv)'
  BY SentInvStep, PodInvStep
<1>3. TypeOK /\ SentInv /\ PodInv => AdmittedIsProvisioned
  BY ProvisionedFromParts
<1> QED
  BY <1>1, <1>2, <1>3, BasicsInvariant, PTL DEF Spec

-----------------------------------------------------------------------------
(***************************************************************************)
(* Who closes channels, and who leaves its loop.  The handler that closed  *)
(* the first channel has all the others to itself; a process that is down  *)
(* has neither such a handler nor a worker that is gone.                   *)
(***************************************************************************)
Gone == {"exit", "panicked"}
ChannelsInv ==
    /\ NobodyWaitsInVain
    /\ \A r \in Reviews : Closes(r) # {} => process = "up" /\ "secret" \in closed
    /\ process = "down" => {creator.pc, deleter.pc, certCreator.pc} \cap Gone = {}

LEMMA WorkersLeave ==
    ASSUME TypeOK, [Next]_vars
    PROVE  /\ creator'.pc \in Gone => creator.pc \in Gone \/ (process = "up" /\ "secret" \in closed)
           /\ deleter'.pc \in Gone => deleter.pc \in Gone \/ (process = "up" /\ "delete" \in closed)
           /\ certCreator'.pc \in Gone =>
                 certCreator.pc \in Gone \/ (process = "up" /\ {"secret", "cert"} \cap closed # {})
           /\ process' = "down" /\ process = "up" => {creator'.pc, deleter'.pc, certCreator'.pc} \cap Gone = {}
<1> USE DEF Gone
<1>1. CASE UNCHANGED vars
  BY <1>1 DEF vars, creatorVars, runtimeVars
<1>2. ASSUME \/ \E p \in Pods : Submit(p) \/ AddTruststore(p) \/ Unreachable(p)
             \/ \E r \in Reviews, p \in Pods, op \in Operations, dry \in BOOLEAN : Review(r, p, op, dry)
             \/ \E r \in Reviews : HangUp(r) \/ Settle(r)
             \/ ClusterStep \/ ProcessStep \/ ShutdownStep \/ Rest
      PROVE  UNCHANGED <<creator, deleter, certCreator, process>>
  BY <1>2 DEF Submit, AddTruststore, Unreachable, Review, HangUp, Settle, ClusterStep, ProcessStep,
              Signal, TaskFails, ShutdownStep, BeginShutdown, EndShutdown, Rest, vars, creatorVars,
              runtimeVars
<1>3. ASSUME NEW r \in Reviews, Handler(r)
      PROVE  /\ UNCHANGED process
             /\ UNCHANGED creator \/ creator'.pc = "call"
             /\ UNCHANGED deleter \/ deleter'.pc = "call"
             /\ UNCHANGED certCreator \/ certCreator'.pc = "send"
  BY <1>3 DEF Handler, HandlerStep, CloseSecret, ClosePanics, CloseCert, CloseDelete, Dispatch,
              SendDelete, Resolve, ResolveFails, SendSecret, SendCert, HandlerPanics, CreatorReceives,
              DeleterReceives, CertCreatorReceives
<1>4. CASE SecretWorker
  BY <1>4 DEF SecretWorker, CreatorStep, CreateSucceeds, CreateFindsSecret, CreateFails, CreatorExits,
              CreatorIdle
<1>5. CASE DeleteWorker
  BY <1>5 DEF DeleteWorker, DeleterStep, DeleteSucceeds, DeleteFindsNothing, DeleteRefused,
              DeleteInterrupted, DeleterExits, DeleterIdle, creatorVars
<1>6. CASE CertWorker
  <2>1. UNCHANGED <<process, deleter>> /\ process = "up"
    BY <1>6 DEF CertWorker
  <2>2. CASE SendPassword
    <3>1. creator'.pc = "call" /\ certCreator'.pc = "call"
      BY <2>2 DEF SendPassword, CreatorReceives, TypeOK, CertCreatorTypeOK
    <3> QED
      BY <2>1, <3>1
  <2>3. CASE SendPanics
    BY <2>1, <2>3 DEF SendPanics
  <2>4. CASE CertCreatorExits
    BY <2>1, <2>4 DEF CertCreatorExits
  <2>5. CASE CertificateCreated \/ CertificateFound \/ CertificateRefused \/ CertificateInterrupted
    BY <2>1, <2>5 DEF CertificateCreated, CertificateFound, CertificateRefused, CertificateInterrupted,
                      CertCreatorIdle
  <2> QED
    BY <1>6, <2>2, <2>3, <2>4, <2>5 DEF CertWorker, CertCreatorStep
<1>7. CASE RunReturns \/ Kill
  BY <1>7 DEF RunReturns, Kill, Die, CreatorIdle, DeleterIdle, CertCreatorIdle
<1>8. CASE Restart
  BY <1>8 DEF Restart, Start, StartFails, creatorVars
<1> QED
  BY <1>1, <1>2, <1>3, <1>4, <1>5, <1>6, <1>7, <1>8 DEF Next

LEMMA ClosingSteps ==
    ASSUME TypeOK, [Next]_vars
    PROVE  \/ UNCHANGED <<process, closed>> /\ \A r \in Reviews : Closes(r)' = Closes(r)
           \/ \E r \in Reviews : /\ process = "up" /\ UNCHANGED process
                                 /\ CloseSecret(r) \/ CloseCert(r) \/ CloseDelete(r)
           \/ process' = "down" /\ \A r \in Reviews : Closes(r)' = {}
           \/ /\ process = "down" /\ process' = "up" /\ closed' = {}
              /\ UNCHANGED <<reviews, creator, deleter, certCreator>>
<1> DEFINE Same == UNCHANGED <<process, closed>> /\ \A r \in Reviews : Closes(r)' = Closes(r)
<1>1. reviews \in [Reviews -> ReviewRecords]
  BY DEF TypeOK, ValidatorTypeOK
<1>2. ASSUME UNCHANGED <<process, closed, reviews>> PROVE Same
  BY <1>2 DEF Closes, At
<1>3. ASSUME UNCHANGED <<process, closed>>, NEW s \in Reviews, NEW new,
             reviews' = [reviews EXCEPT ![s] = new],
             reviews[s].pc \notin {"closeCert", "closeDelete"},
             new.pc \notin {"closeCert", "closeDelete"}
      PROVE  Same
  <2>1. \A r \in Reviews : reviews'[r] = IF r = s THEN new ELSE reviews[r]
    BY <1>1, <1>3
  <2> QED
    BY <1>3, <2>1 DEF Closes, At
<1>4. ASSUME \/ UNCHANGED vars
             \/ \E p \in Pods : Submit(p) \/ AddTruststore(p) \/ Unreachable(p)
             \/ ClusterStep \/ SecretWorker \/ DeleteWorker \/ CertWorker
             \/ ProcessStep \/ ShutdownStep \/ Rest
      PROVE  UNCHANGED <<process, closed, reviews>>
  BY <1>4 DEF Submit, AddTruststore, Unreachable, ClusterStep, SecretWorker, DeleteWorker, CertWorker,
              ProcessStep, Signal, TaskFails, ShutdownStep, BeginShutdown, EndShutdown, Rest, vars,
              runtimeVars
<1>5. ASSUME NEW r \in Reviews, NEW p \in Pods, NEW op \in Operations, NEW dry \in BOOLEAN,
             Review(r, p, op, dry)
      PROVE  Same
  <2>1. UNCHANGED <<process, closed>> /\ reviews[r].pc = "idle"
    BY <1>5 DEF Review, runtimeVars
  <2>2. PICK new : new.pc = "start" /\ reviews' = [reviews EXCEPT ![r] = new]
    BY <1>5 DEF Review
  <2> QED
    BY <1>3, <2>1, <2>2
<1>6. ASSUME NEW r \in Reviews, HangUp(r) \/ Settle(r) PROVE Same
  <2>1. UNCHANGED <<process, closed>> /\ reviews' = [reviews EXCEPT ![r].waiting = FALSE]
    BY <1>6 DEF HangUp, Settle, runtimeVars
  <2>2. \A s \in Reviews : reviews'[s].pc = reviews[s].pc
    BY <1>1, <2>1 DEF ReviewRecords
  <2> QED
    BY <2>1, <2>2 DEF Closes, At
<1>7. ASSUME NEW r \in Reviews, Handler(r), ~CloseSecret(r), ~CloseCert(r), ~CloseDelete(r)
      PROVE  Same
  <2>1. UNCHANGED <<process, closed>>
    BY <1>7 DEF Handler, HandlerStep, ClosePanics, Dispatch, SendDelete, Resolve, ResolveFails,
                SendSecret, SendCert, HandlerPanics
  <2>2. reviews[r].pc \notin {"closeCert", "closeDelete"}
    BY <1>7 DEF Handler, HandlerStep, ClosePanics, Dispatch, SendDelete, Resolve, ResolveFails,
                SendSecret, SendCert, HandlerPanics, At
  <2>3. ASSUME NEW pc, pc \notin {"closeCert", "closeDelete"}, Goto(r, pc) PROVE Same
    <3>1. reviews' = [reviews EXCEPT ![r] = [reviews[r] EXCEPT !.pc = pc]]
      BY <1>1, <2>3 DEF Goto
    <3>2. [reviews[r] EXCEPT !.pc = pc].pc = pc
      BY <1>1 DEF ReviewRecords
    <3> QED
      BY <1>3, <2>1, <2>2, <2>3, <3>1, <3>2
  <2>4. CASE Dispatch(r)
    <3>1. PICK pc \in {"allowed", "sendDelete", "resolve", "failed"} : Goto(r, pc)
      BY <2>4 DEF Dispatch
    <3> QED
      BY <2>3, <3>1
  <2>5. CASE Resolve(r)
    <3>1. PICK pc \in {"allowed", "sendSecret"} :
             reviews' = [reviews EXCEPT ![r] = [reviews[r] EXCEPT !.root = root[reviews[r].pod], !.pc = pc]]
      BY <2>5 DEF Resolve
    <3>2. [reviews[r] EXCEPT !.root = root[reviews[r].pod], !.pc = pc].pc = pc
      BY <1>1 DEF ReviewRecords
    <3> QED
      BY <1>3, <2>1, <2>2, <3>1, <3>2
  <2>6. CASE ClosePanics(r) \/ HandlerPanics(r)
    BY <2>3, <2>6 DEF ClosePanics, HandlerPanics
  <2>7. CASE ResolveFails(r) \/ SendDelete(r) \/ SendCert(r)
    BY <2>3, <2>7 DEF ResolveFails, SendDelete, SendCert
  <2>8. CASE SendSecret(r)
    <3>1. PICK pc \in {"allowed", "sendCert"} : Goto(r, pc)
      BY <2>8 DEF SendSecret
    <3> QED
      BY <2>3, <3>1
  <2> QED
    BY <1>7, <2>4, <2>5, <2>6, <2>7, <2>8 DEF Handler, HandlerStep
<1>8. CASE RunReturns \/ Kill
  <2>1. process' = "down" /\ AllFail
    BY <1>8 DEF RunReturns, Kill, Die, Ends, AllFail
  <2>2. \A r \in Reviews : reviews'[r].pc \notin {"closeCert", "closeDelete"}
    BY <1>1, <2>1 DEF AllFail, Running, Answers, ReviewRecords
  <2> QED
    BY <2>1, <2>2 DEF Closes, At
<1>9. CASE Restart
  <2>1. UNCHANGED <<reviews, creator, deleter, certCreator>>
    BY <1>9 DEF Restart, creatorVars
  <2> QED
    BY <1>2, <1>9, <2>1 DEF Restart, Start, StartFails, Fresh
<1>10. ASSUME NEW r \in Reviews, Handler(r) PROVE process = "up" /\ UNCHANGED process
  BY <1>10 DEF Handler
<1> QED
  BY <1>2, <1>4, <1>5, <1>6, <1>7, <1>8, <1>9, <1>10 DEF Next

LEMMA ChannelsStep == TypeOK /\ ChannelsInv /\ [Next]_vars => ChannelsInv'
<1> SUFFICES ASSUME TypeOK, ChannelsInv, [Next]_vars PROVE ChannelsInv'
  OBVIOUS
<1>1. /\ creator.pc \in Gone => creator.pc = "exit"
      /\ deleter.pc \in Gone => deleter.pc = "exit"
      /\ process \in {"up", "down"} /\ closed \subseteq Channels
      /\ reviews \in [Reviews -> ReviewRecords]
  BY DEF Gone, TypeOK, CreatorTypeOK, DeleterTypeOK, RuntimeTypeOK, ValidatorTypeOK
<1>2. \A r \in Reviews : Closes(r) \subseteq {"cert", "delete"}
  BY DEF Closes
<1>3. ASSUME process = "up"
      PROVE  /\ creator'.pc \in Gone => "secret" \in closed
             /\ deleter'.pc \in Gone => "delete" \in closed
             /\ certCreator'.pc \in Gone => "cert" \in ClosedSoon
  <2>1. closed # {} => "cert" \in ClosedSoon
    BY <1>3 DEF ChannelsInv, NobodyWaitsInVain, Channels
  <2> QED
    BY <1>1, <1>3, <2>1, WorkersLeave DEF ChannelsInv, NobodyWaitsInVain, Gone
<1>4. process = "down" => {creator'.pc, deleter'.pc, certCreator'.pc} \cap Gone = {}
  BY WorkersLeave DEF ChannelsInv
<1>5. /\ creator'.pc = "exit" => creator'.pc \in Gone
      /\ deleter'.pc = "exit" => deleter'.pc \in Gone
  BY DEF Gone
<1>6. CASE UNCHANGED <<process, closed>> /\ \A r \in Reviews : Closes(r)' = Closes(r)
  <2>1. ClosedSoon' = ClosedSoon
    BY <1>6 DEF ClosedSoon
  <2>2. process = "up" => NobodyWaitsInVain'
    BY <1>3, <1>5, <1>6, <2>1 DEF ChannelsInv, NobodyWaitsInVain, Gone
  <2> QED
    BY <1>1, <1>4, <1>6, <2>2 DEF ChannelsInv, NobodyWaitsInVain
<1>7. ASSUME NEW r \in Reviews, process = "up", UNCHANGED process,
             CloseSecret(r) \/ CloseCert(r) \/ CloseDelete(r)
      PROVE  ChannelsInv'
  <2>1. \A s \in Reviews \ {r} : Closes(s)' = Closes(s)
    <3>1. \E pc : Goto(r, pc)
      BY <1>7 DEF CloseSecret, CloseCert, CloseDelete
    <3>2. \A s \in Reviews \ {r} : reviews'[s] = reviews[s]
      BY <1>1, <3>1 DEF Goto
    <3> QED
      BY <3>2 DEF Closes, At
  <2>2. ASSUME NEW pc, Goto(r, pc) PROVE reviews'[r].pc = pc
    BY <1>1, <2>2 DEF Goto, ReviewRecords
  <2>3. /\ \A s \in Reviews : Closes(s) # {} => "secret" \in closed
        /\ closed # {} => ClosedSoon = Channels
        /\ \A s \in Reviews : /\ Closes(s) \cap closed = {}
                              /\ \A t \in Reviews \ {s} : Closes(s) \cap Closes(t) = {}
    BY <1>7 DEF ChannelsInv, NobodyWaitsInVain
  <2>4. CASE CloseSecret(r)
    <3>1. closed = {}
      <4>1. "secret" \notin closed
        BY <2>4 DEF CloseSecret
      <4>2. "secret" \notin ClosedSoon
        BY <1>2, <4>1 DEF ClosedSoon
      <4> QED
        BY <2>3, <4>2 DEF Channels
    <3>2. \A s \in Reviews : Closes(s) = {}
      BY <2>3, <3>1
    <3>3. closed' = {"secret"} /\ Closes(r)' = {"cert", "delete"}
      BY <2>2, <2>4, <3>1 DEF CloseSecret, Closes, At
    <3>4. ClosedSoon' = Channels
      BY <1>2, <2>1, <3>2, <3>3 DEF ClosedSoon, Channels
    <3>5. {creator'.pc, deleter'.pc, certCreator'.pc} \cap Gone = {}
      <4>1. ClosedSoon = {}
        BY <3>1, <3>2 DEF ClosedSoon
      <4> QED
        BY <1>3, <1>7, <3>1, <4>1
    <3>6. ASSUME NEW s \in Reviews
          PROVE  /\ Closes(s)' \cap closed' = {}
                 /\ \A t \in Reviews \ {s} : Closes(s)' \cap Closes(t)' = {}
      <4>1. \A t \in Reviews \ {r} : Closes(t)' = {}
        BY <2>1, <3>2
      <4>2. Closes(s)' \cap closed' = {}
        BY <3>3, <4>1
      <4>3. \A t \in Reviews \ {s} : s # r \/ t # r
        OBVIOUS
      <4>4. \A t \in Reviews \ {s} : Closes(s)' \cap Closes(t)' = {}
        BY <4>1, <4>3
      <4> QED
        BY <4>2, <4>4
    <3>7. "secret" \in closed' /\ process' = "up"
      BY <1>7, <3>3
    <3>8. NobodyWaitsInVain'
      BY <1>5, <3>4, <3>5, <3>6 DEF NobodyWaitsInVain, Gone
    <3> QED
      BY <3>5, <3>7, <3>8 DEF ChannelsInv
  <2>5. ASSUME NEW c, closed' = closed \cup {c}, Closes(r) = Closes(r)' \cup {c}, c \notin Closes(r)'
        PROVE  ChannelsInv'
    <3>1. ClosedSoon' = ClosedSoon
      <4>1. \A x : x \in ClosedSoon <=> x \in closed \/ \E s \in Reviews : x \in Closes(s)
        BY DEF ClosedSoon
      <4>2. \A x : x \in ClosedSoon' <=> x \in closed' \/ \E s \in Reviews : x \in Closes(s)'
        BY DEF ClosedSoon
      <4>3. \A x : x \in ClosedSoon' <=> x \in ClosedSoon
        BY <2>1, <2>5, <4>1, <4>2
      <4> QED
        BY <4>3
    <3>2. "secret" \in closed
      BY <2>3, <2>5
    <3>3. ASSUME NEW s \in Reviews
          PROVE  /\ Closes(s)' \cap closed' = {}
                 /\ \A t \in Reviews \ {s} : Closes(s)' \cap Closes(t)' = {}
      <4>1. \A t \in Reviews : Closes(t)' \subseteq Closes(t)
        BY <2>1, <2>5
      <4>2. c \notin Closes(s)'
        BY <2>1, <2>3, <2>5
      <4> QED
        BY <2>3, <2>5, <4>1, <4>2
    <3> QED
      BY <1>3, <1>5, <1>7, <2>3, <2>5, <3>1, <3>2, <3>3 DEF ChannelsInv, NobodyWaitsInVain, Gone
  <2>6. CASE CloseCert(r)
    <3>1. closed' = closed \cup {"cert"} /\ Closes(r) = {"cert", "delete"} /\ Closes(r)' = {"delete"}
      BY <2>2, <2>6 DEF CloseCert, Closes, At
    <3> QED
      BY <2>5, <3>1
  <2>7. CASE CloseDelete(r)
    <3>1. closed' = closed \cup {"delete"} /\ Closes(r) = {"delete"} /\ Closes(r)' = {}
      BY <2>2, <2>7 DEF CloseDelete, Closes, At
    <3> QED
      BY <2>5, <3>1
  <2> QED
    BY <1>7, <2>4, <2>6, <2>7
<1>8. CASE process' = "down" /\ \A r \in Reviews : Closes(r)' = {}
  BY <1>1, <1>4, <1>8, WorkersLeave DEF ChannelsInv, NobodyWaitsInVain
<1>9. CASE /\ process = "down" /\ process' = "up" /\ closed' = {}
           /\ UNCHANGED <<reviews, creator, deleter, certCreator>>
  <2>1. \A r \in Reviews : Closes(r)' = {}
    BY <1>9 DEF ChannelsInv, Closes, At
  <2> QED
    BY <1>4, <1>5, <1>9, <2>1 DEF ChannelsInv, NobodyWaitsInVain, Gone
<1> QED
  BY <1>6, <1>7, <1>8, <1>9, ClosingSteps

(***************************************************************************)
(* For any number of reviews and restarts: nobody waits for a worker that  *)
(* is gone or for a channel that nobody closes, and the closing itself     *)
(* never panics halfway.                                                   *)
(***************************************************************************)
THEOREM NobodyWaitsInVainEver == Spec => []NobodyWaitsInVain
<1>1. Init => ChannelsInv
  BY DEF Init, RuntimeInit, CreatorInit, CreatorIdle, DeleterInit, DeleterIdle, CertCreatorInit,
         CertCreatorIdle, ValidatorInit, ChannelsInv, NobodyWaitsInVain, Closes, ClosedSoon, At, Gone
<1>2. ChannelsInv => NobodyWaitsInVain
  BY DEF ChannelsInv
<1> QED
  BY <1>1, <1>2, ChannelsStep, TypeCorrect, PTL DEF Spec
=============================================================================
