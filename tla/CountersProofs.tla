--------------------------- MODULE CountersProofs ---------------------------
(***************************************************************************)
(* What the counters of prometheus.go tell: every request a worker took is *)
(* counted once, and while nothing fails the counts are what is stored.    *)
(***************************************************************************)
EXTENDS ContractProofs, FiniteSetTheorems

USE DEF ObjectIds, OwnerRefs, Objects, Data

(***************************************************************************)
(* Only finitely many reviews were sent and objects stored so far, however *)
(* many there may be: so their numbers are numbers.                        *)
(***************************************************************************)
Sent == {r \in Reviews : reviews[r].pc # "idle"}
FiniteInv == IsFiniteSet(Sent) /\ IsFiniteSet(InStore)

LEMMA OneMore ==
    ASSUME NEW S, NEW x, IsFiniteSet(S), x \notin S
    PROVE  Cardinality(S) \in Nat /\ Cardinality(S \cup {x}) = Cardinality(S) + 1
BY FS_AddElement, FS_CardinalityType

LEMMA OneLess ==
    ASSUME NEW S, NEW x, IsFiniteSet(S), x \in S
    PROVE  /\ Cardinality(S) \in Nat /\ Cardinality(S \ {x}) \in Nat
           /\ Cardinality(S) = Cardinality(S \ {x}) + 1
<1>1. IsFiniteSet(S \ {x}) /\ Cardinality(S \ {x}) = Cardinality(S) - 1
  BY FS_RemoveElement
<1>2. Cardinality(S) \in Nat /\ Cardinality(S \ {x}) \in Nat
  BY <1>1, FS_CardinalityType
<1> QED
  BY <1>1, <1>2

LEMMA PartFinite ==
    ASSUME FiniteInv
    PROVE  /\ \A S \in SUBSET Sent : IsFiniteSet(S) /\ Cardinality(S) \in Nat
           /\ \A S \in SUBSET InStore : IsFiniteSet(S) /\ Cardinality(S) \in Nat
<1>1. \A S \in SUBSET Sent : IsFiniteSet(S)
  BY FS_Subset DEF FiniteInv
<1>2. \A S \in SUBSET InStore : IsFiniteSet(S)
  BY FS_Subset DEF FiniteInv
<1> QED
  BY <1>1, <1>2, FS_CardinalityType

LEMMA FiniteInvInit == Init => FiniteInv
<1> SUFFICES ASSUME Init PROVE FiniteInv
  OBVIOUS
<1>1. Sent = {} /\ InStore = {}
  BY DEF Init, ValidatorInit, ClusterInit, Sent, InStore, Exists
<1> QED
  BY <1>1, FS_EmptySet DEF FiniteInv

LEMMA FiniteInvStep == TypeOK /\ HandlerInv /\ FiniteInv /\ [Next]_vars => FiniteInv'
<1> SUFFICES ASSUME TypeOK, HandlerInv, FiniteInv, [Next]_vars PROVE FiniteInv'
  OBVIOUS
<1>1. IsFiniteSet(Sent')
  <2>1. ASSUME NEW r \in Reviews, Begins(r) PROVE Sent' \subseteq Sent \cup {r}
    BY <2>1 DEF Begins, Sent, TypeOK, ValidatorTypeOK
  <2>2. \/ Sent' \subseteq Sent
        \/ \E r \in Reviews : Begins(r)
    <3>1. reviews \in [Reviews -> ReviewRecords] /\ \A s \in Reviews : reviews[s] \in ReviewRecords
      BY DEF TypeOK, ValidatorTypeOK
    <3>2. ASSUME NEW r \in Reviews, StopsWaiting(r) PROVE Sent' \subseteq Sent
      BY <3>1, <3>2 DEF StopsWaiting, Sent, ReviewRecords
    <3>3. ASSUME NEW r \in Reviews, HandlerStep(r) PROVE Sent' \subseteq Sent
      <4>1. reviews[r].pc # "idle"
        BY <3>3 DEF HandlerStep, CloseSecret, ClosePanics, CloseCert, CloseDelete, Dispatch, SendDelete,
                    Resolve, ResolveFails, SendSecret, SendCert, HandlerPanics, At
      <4>2. \A s \in Reviews \ {r} : reviews'[s] = reviews[s]
        BY <3>1, <3>3, HandlerGoes DEF Dispatch, Resolve, Goto
      <4> QED
        BY <4>1, <4>2 DEF Sent
    <3>4. CASE AllFail
      BY <3>1, <3>4 DEF AllFail, Sent, Running
    <3>5. CASE UNCHANGED reviews
      BY <3>5 DEF Sent
    <3> QED
      BY <3>2, <3>3, <3>4, <3>5, ReviewSteps
  <2> QED
    BY <2>1, <2>2, FS_AddElement, FS_Subset DEF FiniteInv
<1>2. IsFiniteSet(InStore')
  <2>1. objects \in [ObjectIds -> Objects \cup {None}]
    BY DEF TypeOK, ClusterTypeOK
  <2>2. ASSUME NEW i, NEW o, Stores(i, o) PROVE InStore' \subseteq InStore \cup {i}
    BY <2>1, <2>2 DEF Stores, InStore, Exists
  <2>3. ASSUME NEW i, Removes(i) PROVE InStore' \subseteq InStore
    BY <2>1, <2>3 DEF Removes, InStore, Exists
  <2>4. CASE UNCHANGED objects
    BY <2>4 DEF InStore, Exists, FiniteInv
  <2>5. \A i : IsFiniteSet(InStore \cup {i})
    BY FS_AddElement DEF FiniteInv
  <2> QED
    BY <2>2, <2>3, <2>4, <2>5, ObjectSteps, FS_Subset DEF FiniteInv
<1> QED
  BY <1>1, <1>2 DEF FiniteInv

-----------------------------------------------------------------------------
(***************************************************************************)
(* A first process with open channels was one before, and then no handler  *)
(* panics.                                                                 *)
(***************************************************************************)
LEMMA CalmBefore ==
    ASSUME TypeOK, [Next]_vars, FirstProcess'
    PROVE  /\ FirstProcess
           /\ closed' = {} => closed = {}
           /\ CtxDone => CtxDone'
           /\ ~RunReturns /\ ~Kill /\ ~Restart
<1>1. ~RunReturns /\ ~Kill
  BY DEF RunReturns, Kill, Die, Ends, FirstProcess
<1>2. ~Restart
  BY DEF Restart, Start, StartFails, FirstProcess, TypeOK, RuntimeTypeOK
<1>3. CASE UNCHANGED vars
  BY <1>1, <1>2, <1>3 DEF vars, runtimeVars, FirstProcess, CtxDone
<1>4. ASSUME \/ \E p \in Pods : Submit(p) \/ AddTruststore(p) \/ Unreachable(p)
             \/ \E r \in Reviews, p \in Pods, op \in Operations, dry \in BOOLEAN : Review(r, p, op, dry)
             \/ \E r \in Reviews : HangUp(r) \/ Settle(r)
             \/ ClusterStep \/ SecretWorker \/ DeleteWorker \/ Rest
      PROVE  UNCHANGED <<process, restarts, ctx, closed>>
  BY <1>4 DEF Submit, AddTruststore, Unreachable, Review, HangUp, Settle, ClusterStep,
              SecretWorker, DeleteWorker, Rest, vars, runtimeVars
<1>5. ASSUME NEW r \in Reviews, Handler(r)
      PROVE  UNCHANGED <<process, restarts, ctx>> /\ closed \subseteq closed'
  BY <1>5 DEF Handler, HandlerStep, CloseSecret, ClosePanics, CloseCert, CloseDelete, Dispatch,
              SendDelete, Resolve, ResolveFails, SendSecret, SendCert, HandlerPanics
<1>6. CASE CertWorker
  <2>1. CtxDone => CtxDone'
    BY <1>6 DEF CertWorker, CertCreatorStep, SendPassword, SendPanics, CertificateCreated, CertificateFound,
                CertificateRefused, CertificateInterrupted, CertCreatorExits, CancelOnError, CtxDone
  <2> QED
    BY <1>1, <1>2, <1>6, <2>1 DEF CertWorker, FirstProcess
<1>7. CASE ProcessStep \/ ShutdownStep
  BY <1>1, <1>2, <1>7 DEF ProcessStep, Signal, TaskFails, CancelOnError, ShutdownStep, BeginShutdown,
                          EndShutdown, FirstProcess, CtxDone
<1> QED
  BY <1>1, <1>2, <1>3, <1>4, <1>5, <1>6, <1>7 DEF Next, FirstProcess, CtxDone

-----------------------------------------------------------------------------
(***************************************************************************)
(* What was asked of the workers grows by what a handler hands over.       *)
(***************************************************************************)
LEMMA AskedIsSent ==
    ASSUME HandlerInv, NEW n
    PROVE  SecretsAsked(n) \subseteq Sent /\ CertificatesAsked(n) \subseteq Sent /\ DeletionsAsked(n) \subseteq Sent
BY DEF SecretsAsked, CertificatesAsked, DeletionsAsked, Sent, AsksDeletion, At

\* nothing more is asked
NoneAsked(n) == UNCHANGED <<SecretsAsked(n), CertificatesAsked(n), DeletionsAsked(n)>>

LEMMA EnvironmentAsksNothing ==
    ASSUME TypeOK, NEW n,
           UNCHANGED reviews \/ \E r \in Reviews : Begins(r) \/ StopsWaiting(r)
    PROVE  NoneAsked(n)
<1>1. reviews \in [Reviews -> ReviewRecords] /\ \A s \in Reviews : reviews[s] \in ReviewRecords
  BY DEF TypeOK, ValidatorTypeOK
<1>2. CASE UNCHANGED reviews
  BY <1>2 DEF NoneAsked, SecretsAsked, CertificatesAsked, DeletionsAsked, Provides, AsksDeletion, At, PodOf, Ownerless
<1>3. ASSUME NEW r \in Reviews, Begins(r) PROVE NoneAsked(n)
  <2>1. reviews[r].pc = "idle" /\ reviews'[r].pc = "start" /\ \A s \in Reviews \ {r} : reviews'[s] = reviews[s]
    BY <1>1, <1>3 DEF Begins
  <2> QED
    BY <2>1 DEF NoneAsked, SecretsAsked, CertificatesAsked, DeletionsAsked, Provides, AsksDeletion, At, PodOf, Ownerless
<1>4. ASSUME NEW r \in Reviews, StopsWaiting(r) PROVE NoneAsked(n)
  <2>1. \A s \in Reviews : /\ reviews'[s].pc = reviews[s].pc /\ reviews'[s].root = reviews[s].root
                           /\ reviews'[s].op = reviews[s].op /\ reviews'[s].pod = reviews[s].pod
                           /\ reviews'[s].dry = reviews[s].dry
    BY <1>1, <1>4 DEF StopsWaiting, ReviewRecords
  <2> QED
    BY <2>1 DEF NoneAsked, SecretsAsked, CertificatesAsked, DeletionsAsked, Provides, AsksDeletion, At, PodOf, Ownerless
<1> QED
  BY <1>2, <1>3, <1>4

LEMMA HandlersAsk ==
    ASSUME TypeOK, HandlerInv, NEW n, NEW r \in Reviews, HandlerStep(r), closed = {}
    PROVE  \/ NoneAsked(n) /\ ~SendSecret(r) /\ ~SendCert(r) /\ ~SendDelete(r)
           \/ /\ SendSecret(r)
              /\ UNCHANGED <<CertificatesAsked(n), DeletionsAsked(n)>>
              /\ r \notin SecretsAsked(n)
              /\ SecretsAsked(n)' = IF PodOf(r).ns = n THEN SecretsAsked(n) \cup {r} ELSE SecretsAsked(n)
           \/ /\ SendCert(r)
              /\ UNCHANGED <<SecretsAsked(n), DeletionsAsked(n)>>
              /\ r \notin CertificatesAsked(n)
              /\ CertificatesAsked(n)' =
                    IF PodOf(r).ns = n THEN CertificatesAsked(n) \cup {r} ELSE CertificatesAsked(n)
           \/ /\ SendDelete(r)
              /\ UNCHANGED <<SecretsAsked(n), CertificatesAsked(n)>>
              /\ r \notin DeletionsAsked(n)
              /\ DeletionsAsked(n)' = IF PodOf(r).ns = n THEN DeletionsAsked(n) \cup {r} ELSE DeletionsAsked(n)
<1>1. reviews \in [Reviews -> ReviewRecords] /\ \A s \in Reviews : reviews[s] \in ReviewRecords
  BY DEF TypeOK, ValidatorTypeOK
<1>2. ASSUME NEW pc, Goto(r, pc)
      PROVE  /\ reviews'[r].pc = pc /\ reviews'[r].root = reviews[r].root
             /\ reviews'[r].op = reviews[r].op /\ reviews'[r].pod = reviews[r].pod
             /\ reviews'[r].dry = reviews[r].dry
             /\ \A s \in Reviews \ {r} : reviews'[s] = reviews[s]
  BY <1>1, <1>2 DEF Goto, ReviewRecords
<1> USE DEF NoneAsked, SecretsAsked, CertificatesAsked, DeletionsAsked, Provides, AsksDeletion, At, PodOf, Ownerless
<1>3. CASE CloseSecret(r) \/ ClosePanics(r) \/ CloseCert(r) \/ CloseDelete(r) \/ ResolveFails(r) \/ HandlerPanics(r)
  <2>1. PICK pc \in {"closeCert", "closeDelete", "failed", "denied"} : Goto(r, pc)
    BY <1>3 DEF CloseSecret, ClosePanics, CloseCert, CloseDelete, ResolveFails, HandlerPanics
  <2>2. reviews[r].pc \in {"start", "closeCert", "closeDelete", "resolve"}
    BY <1>3 DEF CloseSecret, ClosePanics, CloseCert, CloseDelete, ResolveFails, HandlerPanics
  <2>3. ~SendSecret(r) /\ ~SendCert(r) /\ ~SendDelete(r)
    BY <2>2 DEF SendSecret, SendCert, SendDelete
  <2>4. NoneAsked(n)
    BY <1>2, <2>1, <2>2
  <2> QED
    BY <2>3, <2>4
<1>4. CASE Dispatch(r)
  <2>1. reviews[r].pc = "start"
    BY <1>4 DEF Dispatch
  <2>2. ~SendSecret(r) /\ ~SendCert(r) /\ ~SendDelete(r)
    BY <2>1 DEF SendSecret, SendCert, SendDelete
  <2>3. \/ \E pc \in {"sendDelete", "resolve", "failed"} : Goto(r, pc)
        \/ Goto(r, "allowed") /\ ~PodOf(r).enabled
        \/ Goto(r, "allowed") /\ reviews[r].op = "DELETE" /\ (~Ownerless(reviews[r].pod) \/ reviews[r].dry)
    <3>1. CASE ~PodOf(r).enabled
      BY <1>4, <3>1 DEF Dispatch
    <3>2. CASE PodOf(r).enabled /\ reviews[r].op = "DELETE"
      BY <1>4, <3>2 DEF Dispatch
    <3>3. CASE PodOf(r).enabled /\ reviews[r].op # "DELETE"
      BY <1>4, <3>3 DEF Dispatch
    <3> QED
      BY <3>1, <3>2, <3>3
  <2>4. NoneAsked(n)
    BY <1>2, <2>1, <2>3
  <2> QED
    BY <2>2, <2>4
<1>5. CASE Resolve(r)
  <2>1. reviews[r].pc = "resolve" /\ reviews[r].op = "CREATE"
    BY <1>5 DEF Resolve, HandlerInv
  <2>2. ~SendSecret(r) /\ ~SendCert(r) /\ ~SendDelete(r)
    BY <2>1 DEF SendSecret, SendCert, SendDelete
  <2>3. reviews' = [reviews EXCEPT ![r] =
              [reviews[r] EXCEPT !.root = root[reviews[r].pod],
                                 !.pc = IF reviews[r].dry THEN "allowed" ELSE "sendSecret"]]
    BY <1>5 DEF Resolve
  <2>4. /\ reviews'[r].pc = IF reviews[r].dry THEN "allowed" ELSE "sendSecret"
        /\ reviews'[r].op = reviews[r].op /\ reviews'[r].dry = reviews[r].dry
        /\ \A s \in Reviews \ {r} : reviews'[s] = reviews[s]
    BY <1>1, <2>3 DEF ReviewRecords
  <2>5. NoneAsked(n)
    BY <2>1, <2>4
  <2> QED
    BY <2>2, <2>5
<1>6. CASE SendSecret(r)
  <2>1. reviews[r].pc = "sendSecret" /\ Provides(r)
    BY <1>6 DEF SendSecret, HandlerInv
  <2>2. (Goto(r, "allowed") /\ ~PodOf(r).jvm) \/ Goto(r, "sendCert")
    BY <1>6 DEF SendSecret
  <2> QED
    BY <1>2, <1>6, <2>1, <2>2
<1>7. CASE SendCert(r)
  <2>1. reviews[r].pc = "sendCert" /\ Provides(r) /\ PodOf(r).jvm /\ Goto(r, "allowed")
    BY <1>7 DEF SendCert, HandlerInv
  <2> QED
    BY <1>2, <1>7, <2>1
<1>8. CASE SendDelete(r)
  <2>1. /\ reviews[r].pc = "sendDelete" /\ reviews[r].op = "DELETE" /\ ~reviews[r].dry /\ PodOf(r).enabled
        /\ Ownerless(reviews[r].pod) /\ Goto(r, "allowed")
    BY <1>8 DEF SendDelete, HandlerInv
  <2> QED
    BY <1>2, <1>8, <2>1
<1> QED
  BY <1>3, <1>4, <1>5, <1>6, <1>7, <1>8 DEF HandlerStep

-----------------------------------------------------------------------------
(***************************************************************************)
(* Count moves one counter of one namespace and kind.                      *)
(***************************************************************************)
Kinds == {"Secret", "Certificate"}

LEMMA CountMovesOne ==
    ASSUME TypeOK, NEW c \in Counters, NEW m \in Namespaces, NEW k \in Kinds, Count(c, m, k),
           NEW n \in Namespaces, NEW d \in Counters, NEW l \in Kinds
    PROVE  Counted(d, n, l)' = Counted(d, n, l) + OneIf(d = c /\ n = m /\ l = k)
<1>1. metrics \in [Series -> Nat] /\ <<c, m, k>> \in Series /\ <<d, n, l>> \in Series
  BY DEF TypeOK, RuntimeTypeOK, Series, Kinds
<1>2. metrics[<<d, n, l>>] \in Nat
  BY <1>1
<1>3. CASE d = c /\ n = m /\ l = k
  BY <1>1, <1>2, <1>3 DEF Count, Counted, OneIf
<1>4. CASE ~(d = c /\ n = m /\ l = k)
  BY <1>1, <1>2, <1>4 DEF Count, Counted, OneIf
<1> QED
  BY <1>3, <1>4

LEMMA CountsAreNumbers ==
    ASSUME TypeOK, NEW n \in Namespaces
    PROVE  /\ \A d \in Counters, l \in Kinds : Counted(d, n, l) \in Nat
           /\ \A l \in Kinds : Creations(n, l) \in Nat
           /\ Deletions(n) \in Nat
<1>1. \A d \in Counters, l \in Kinds : Counted(d, n, l) \in Nat
  BY DEF TypeOK, RuntimeTypeOK, Series, Kinds, Counted
<1> QED
  BY <1>1 DEF Creations, Deletions, Counters, Kinds

LEMMA CountMovesSums ==
    ASSUME TypeOK, NEW c \in Counters, NEW m \in Namespaces, NEW k \in Kinds, Count(c, m, k),
           NEW n \in Namespaces
    PROVE  /\ \A l \in Kinds : Creations(n, l)' =
                 Creations(n, l) + OneIf(c \in {"Created", "AlreadyExists", "CreateError"} /\ n = m /\ l = k)
           /\ Deletions(n)' =
                 Deletions(n) + OneIf(c \in {"Deleted", "NotFound", "DeleteError"} /\ n = m /\ k = "Secret")
<1>1. \A d \in Counters, l \in Kinds :
         Counted(d, n, l)' = Counted(d, n, l) + OneIf(d = c /\ n = m /\ l = k)
  BY CountMovesOne
<1>2. \A d \in Counters, l \in Kinds : Counted(d, n, l) \in Nat
  BY CountsAreNumbers
<1>3. ASSUME NEW l \in Kinds
      PROVE  Creations(n, l)' =
                 Creations(n, l) + OneIf(c \in {"Created", "AlreadyExists", "CreateError"} /\ n = m /\ l = k)
  BY <1>1, <1>2 DEF Creations, Counters, OneIf
<1>4. Deletions(n)' =
         Deletions(n) + OneIf(c \in {"Deleted", "NotFound", "DeleteError"} /\ n = m /\ k = "Secret")
  BY <1>1, <1>2 DEF Deletions, Counters, Kinds, OneIf
<1> QED
  BY <1>3, <1>4

-----------------------------------------------------------------------------
(***************************************************************************)
(* EveryRequestCounted, for one namespace: what the counters and the hands *)
(* of the workers sum up to.                                               *)
(***************************************************************************)
HoldsSecret(n) == creator.pc = "call" /\ creator.req.id.ns = n
HoldsPassword(n) == certCreator.pc = "send" /\ certCreator.info.ns = n
HoldsCertificate(n) == certCreator.pc \in {"send", "call"} /\ certCreator.info.ns = n
HoldsDeletion(n) == deleter.pc = "call" /\ deleter.id.ns = n

Balanced(n) ==
    /\ Creations(n, "Secret") + OneIf(HoldsSecret(n)) + OneIf(HoldsPassword(n))
       = Cardinality(SecretsAsked(n)) + Cardinality(CertificatesAsked(n))
    /\ Creations(n, "Certificate") + OneIf(HoldsCertificate(n)) = Cardinality(CertificatesAsked(n))
    /\ Deletions(n) + OneIf(HoldsDeletion(n)) = Cardinality(DeletionsAsked(n))

LEMMA CountedIsBalanced ==
    EveryRequestCounted <=> (FirstProcess /\ closed = {} => \A n \in Namespaces : Balanced(n))
BY DEF EveryRequestCounted, Balanced, HoldsSecret, HoldsPassword, HoldsCertificate, HoldsDeletion

LEMMA BalanceInHands ==
    ASSUME UNCHANGED <<metrics, creator, certCreator, deleter>>, NEW n, NoneAsked(n), Balanced(n)
    PROVE  Balanced(n)'
BY DEF NoneAsked, Balanced, Creations, Deletions, Counted, OneIf, HoldsSecret, HoldsPassword,
       HoldsCertificate, HoldsDeletion

\* the numbers in Balanced are numbers
LEMMA BalanceTypes ==
    ASSUME TypeOK, HandlerInv, FiniteInv, NEW n \in Namespaces
    PROVE  /\ Creations(n, "Secret") \in Nat /\ Creations(n, "Certificate") \in Nat /\ Deletions(n) \in Nat
           /\ IsFiniteSet(SecretsAsked(n)) /\ Cardinality(SecretsAsked(n)) \in Nat
           /\ IsFiniteSet(CertificatesAsked(n)) /\ Cardinality(CertificatesAsked(n)) \in Nat
           /\ IsFiniteSet(DeletionsAsked(n)) /\ Cardinality(DeletionsAsked(n)) \in Nat
<1>1. SecretsAsked(n) \in SUBSET Sent /\ CertificatesAsked(n) \in SUBSET Sent /\ DeletionsAsked(n) \in SUBSET Sent
  BY AskedIsSent
<1> QED
  BY <1>1, PartFinite, CountsAreNumbers DEF Kinds

(***************************************************************************)
(* A handler that hands over: the worker holds one more, and one more is   *)
(* asked for.                                                              *)
(***************************************************************************)
LEMMA HandlerKeepsBalance ==
    ASSUME TypeOK, HandlerInv, FiniteInv, NEW n \in Namespaces, Balanced(n), closed = {},
           NEW r \in Reviews, Handler(r)
    PROVE  Balanced(n)'
<1>1. HandlerStep(r) /\ UNCHANGED metrics
  BY DEF Handler
<1>2. UNCHANGED <<Creations(n, "Secret"), Creations(n, "Certificate"), Deletions(n)>>
  BY <1>1 DEF Creations, Deletions, Counted
<1>3. CASE NoneAsked(n) /\ ~SendSecret(r) /\ ~SendCert(r) /\ ~SendDelete(r)
  <2>1. UNCHANGED <<creator, certCreator, deleter>>
    BY <1>1, <1>3 DEF HandlerStep, CloseSecret, ClosePanics, CloseCert, CloseDelete, Dispatch, Resolve,
                      ResolveFails, HandlerPanics
  <2> QED
    BY <1>1, <1>3, <2>1, BalanceInHands
<1>4. CASE /\ SendSecret(r)
           /\ UNCHANGED <<CertificatesAsked(n), DeletionsAsked(n)>>
           /\ r \notin SecretsAsked(n)
           /\ SecretsAsked(n)' = IF PodOf(r).ns = n THEN SecretsAsked(n) \cup {r} ELSE SecretsAsked(n)
  <2>1. ~HoldsSecret(n) /\ (HoldsSecret(n)' <=> PodOf(r).ns = n)
    BY <1>4 DEF SendSecret, CreatorReceives, SecretRequest, SecretName, HoldsSecret
  <2>2. /\ HoldsPassword(n)' = HoldsPassword(n) /\ HoldsCertificate(n)' = HoldsCertificate(n)
        /\ HoldsDeletion(n)' = HoldsDeletion(n)
    BY <1>4 DEF SendSecret, HoldsPassword, HoldsCertificate, HoldsDeletion
  <2>3. Cardinality(SecretsAsked(n))' = Cardinality(SecretsAsked(n)) + OneIf(PodOf(r).ns = n)
    <3>1. CASE PodOf(r).ns = n
      BY <1>4, <3>1, BalanceTypes, OneMore DEF OneIf
    <3>2. CASE PodOf(r).ns # n
      BY <1>4, <3>2, BalanceTypes DEF OneIf
    <3> QED
      BY <3>1, <3>2
  <2> QED
    BY <1>2, <1>4, <2>1, <2>2, <2>3, BalanceTypes DEF Balanced, OneIf
<1>5. CASE /\ SendCert(r)
           /\ UNCHANGED <<SecretsAsked(n), DeletionsAsked(n)>>
           /\ r \notin CertificatesAsked(n)
           /\ CertificatesAsked(n)' =
                 IF PodOf(r).ns = n THEN CertificatesAsked(n) \cup {r} ELSE CertificatesAsked(n)
  <2>1. /\ ~HoldsPassword(n) /\ (HoldsPassword(n)' <=> PodOf(r).ns = n)
        /\ ~HoldsCertificate(n) /\ (HoldsCertificate(n)' <=> PodOf(r).ns = n)
    BY <1>5 DEF SendCert, CertCreatorReceives, CertInfo, HoldsPassword, HoldsCertificate
  <2>2. HoldsSecret(n)' = HoldsSecret(n) /\ HoldsDeletion(n)' = HoldsDeletion(n)
    BY <1>5 DEF SendCert, HoldsSecret, HoldsDeletion
  <2>3. Cardinality(CertificatesAsked(n))' = Cardinality(CertificatesAsked(n)) + OneIf(PodOf(r).ns = n)
    <3>1. CASE PodOf(r).ns = n
      BY <1>5, <3>1, BalanceTypes, OneMore DEF OneIf
    <3>2. CASE PodOf(r).ns # n
      BY <1>5, <3>2, BalanceTypes DEF OneIf
    <3> QED
      BY <3>1, <3>2
  <2> QED
    BY <1>2, <1>5, <2>1, <2>2, <2>3, BalanceTypes DEF Balanced, OneIf
<1>6. CASE /\ SendDelete(r)
           /\ UNCHANGED <<SecretsAsked(n), CertificatesAsked(n)>>
           /\ r \notin DeletionsAsked(n)
           /\ DeletionsAsked(n)' = IF PodOf(r).ns = n THEN DeletionsAsked(n) \cup {r} ELSE DeletionsAsked(n)
  <2>1. ~HoldsDeletion(n) /\ (HoldsDeletion(n)' <=> PodOf(r).ns = n)
    BY <1>6 DEF SendDelete, DeleterReceives, DeletedSecret, SecretName, HoldsDeletion
  <2>2. /\ HoldsSecret(n)' = HoldsSecret(n) /\ HoldsPassword(n)' = HoldsPassword(n)
        /\ HoldsCertificate(n)' = HoldsCertificate(n)
    BY <1>6 DEF SendDelete, HoldsSecret, HoldsPassword, HoldsCertificate
  <2>3. Cardinality(DeletionsAsked(n))' = Cardinality(DeletionsAsked(n)) + OneIf(PodOf(r).ns = n)
    <3>1. CASE PodOf(r).ns = n
      BY <1>6, <3>1, BalanceTypes, OneMore DEF OneIf
    <3>2. CASE PodOf(r).ns # n
      BY <1>6, <3>2, BalanceTypes DEF OneIf
    <3> QED
      BY <3>1, <3>2
  <2> QED
    BY <1>2, <1>6, <2>1, <2>2, <2>3, BalanceTypes DEF Balanced, OneIf
<1> QED
  BY <1>1, <1>3, <1>4, <1>5, <1>6, HandlersAsk

(***************************************************************************)
(* A worker that finishes a call: it holds one less, and one more is       *)
(* counted, by whichever branch it left.                                   *)
(***************************************************************************)
LEMMA WorkersAskNothing ==
    ASSUME TypeOK, UNCHANGED reviews, NEW n
    PROVE  NoneAsked(n)
BY EnvironmentAsksNothing

LEMMA CreatorKeepsBalance ==
    ASSUME TypeOK, HandlerInv, FiniteInv, NEW n \in Namespaces, Balanced(n), closed = {}, SecretWorker
    PROVE  Balanced(n)'
<1>1. NoneAsked(n) /\ UNCHANGED <<certCreator, deleter>>
  BY WorkersAskNothing DEF SecretWorker
<1>2. PICK c \in {"Created", "AlreadyExists", "CreateError"} :
         creator.pc = "call" /\ Count(c, creator.req.id.ns, "Secret") /\ creator' = CreatorIdle
  BY DEF SecretWorker, CreatorStep, CreateSucceeds, CreateFindsSecret, CreateFails, CreatorExits
<1>3. creator.req.id.ns \in Namespaces
  BY <1>2, RequestTypes DEF TypeOK, CreatorTypeOK
<1>4. /\ Creations(n, "Secret")' = Creations(n, "Secret") + OneIf(n = creator.req.id.ns)
      /\ Creations(n, "Certificate")' = Creations(n, "Certificate")
      /\ Deletions(n)' = Deletions(n)
  BY <1>2, <1>3, CountMovesSums, BalanceTypes DEF Counters, Kinds, OneIf
<1>5. (HoldsSecret(n) <=> n = creator.req.id.ns) /\ ~HoldsSecret(n)'
  BY <1>2 DEF HoldsSecret, CreatorIdle
<1>6. /\ HoldsPassword(n)' = HoldsPassword(n) /\ HoldsCertificate(n)' = HoldsCertificate(n)
      /\ HoldsDeletion(n)' = HoldsDeletion(n)
  BY <1>1 DEF HoldsPassword, HoldsCertificate, HoldsDeletion
<1> QED
  BY <1>1, <1>4, <1>5, <1>6, BalanceTypes DEF Balanced, NoneAsked, OneIf

LEMMA DeleterKeepsBalance ==
    ASSUME TypeOK, HandlerInv, FiniteInv, NEW n \in Namespaces, Balanced(n), closed = {}, DeleteWorker
    PROVE  Balanced(n)'
<1>1. NoneAsked(n) /\ UNCHANGED <<creator, certCreator>>
  BY WorkersAskNothing DEF DeleteWorker, creatorVars
<1>2. PICK c \in {"Deleted", "NotFound", "DeleteError"} :
         deleter.pc = "call" /\ Count(c, deleter.id.ns, "Secret") /\ deleter' = DeleterIdle
  BY DEF DeleteWorker, DeleterStep, DeleteSucceeds, DeleteFindsNothing, DeleteRefused, DeleteInterrupted,
         DeleterExits
<1>3. deleter.id.ns \in Namespaces
  BY <1>2 DEF TypeOK, DeleterTypeOK
<1>4. /\ Creations(n, "Secret")' = Creations(n, "Secret")
      /\ Creations(n, "Certificate")' = Creations(n, "Certificate")
      /\ Deletions(n)' = Deletions(n) + OneIf(n = deleter.id.ns)
  BY <1>2, <1>3, CountMovesSums, BalanceTypes DEF Counters, Kinds, OneIf
<1>5. (HoldsDeletion(n) <=> n = deleter.id.ns) /\ ~HoldsDeletion(n)'
  BY <1>2 DEF HoldsDeletion, DeleterIdle
<1>6. /\ HoldsPassword(n)' = HoldsPassword(n) /\ HoldsCertificate(n)' = HoldsCertificate(n)
      /\ HoldsSecret(n)' = HoldsSecret(n)
  BY <1>1 DEF HoldsPassword, HoldsCertificate, HoldsSecret
<1> QED
  BY <1>1, <1>4, <1>5, <1>6, BalanceTypes DEF Balanced, NoneAsked, OneIf

\* the certificate creator also hands the password on to the creator
LEMMA CertCreatorKeepsBalance ==
    ASSUME TypeOK, HandlerInv, FiniteInv, NEW n \in Namespaces, Balanced(n), closed = {}, CertWorker
    PROVE  Balanced(n)'
<1>1. NoneAsked(n) /\ UNCHANGED deleter
  BY WorkersAskNothing DEF CertWorker
<1>2. HoldsDeletion(n)' = HoldsDeletion(n)
  BY <1>1 DEF HoldsDeletion
<1>3. CASE SendPassword
  <2>1. /\ certCreator.pc = "send" /\ certCreator'.pc = "call" /\ certCreator'.info = certCreator.info
        /\ creator.pc = "receive" /\ creator'.pc = "call"
        /\ creator'.req.id.ns = certCreator.info.ns
    BY <1>3 DEF SendPassword, CreatorReceives, PasswordRequest, TruststorePasswordSecretName, TypeOK,
                CertCreatorTypeOK
  <2>2. /\ ~HoldsSecret(n) /\ HoldsSecret(n)' = HoldsPassword(n) /\ ~HoldsPassword(n)'
        /\ HoldsCertificate(n)' = HoldsCertificate(n)
    BY <2>1 DEF HoldsSecret, HoldsPassword, HoldsCertificate
  <2>3. UNCHANGED <<Creations(n, "Secret"), Creations(n, "Certificate"), Deletions(n)>>
    BY <1>3 DEF SendPassword, Creations, Deletions, Counted
  <2> QED
    BY <1>1, <1>2, <2>2, <2>3, BalanceTypes DEF Balanced, NoneAsked, OneIf
<1>4. CASE ~SendPassword
  <2>1. PICK c \in {"Created", "AlreadyExists", "CreateError"} :
           /\ certCreator.pc = "call" /\ Count(c, certCreator.info.ns, "Certificate")
           /\ certCreator' = CertCreatorIdle /\ UNCHANGED creator
    BY <1>4 DEF CertWorker, CertCreatorStep, SendPanics, CertificateCreated, CertificateFound,
                CertificateRefused, CertificateInterrupted, CertCreatorExits
  <2>2. certCreator.info.ns \in Namespaces
    BY <2>1 DEF TypeOK, CertCreatorTypeOK, Infos
  <2>3. /\ Creations(n, "Secret")' = Creations(n, "Secret")
        /\ Creations(n, "Certificate")' = Creations(n, "Certificate") + OneIf(n = certCreator.info.ns)
        /\ Deletions(n)' = Deletions(n)
    BY <2>1, <2>2, CountMovesSums, BalanceTypes DEF Counters, Kinds, OneIf
  <2>4. /\ ~HoldsPassword(n) /\ ~HoldsPassword(n)' /\ HoldsSecret(n)' = HoldsSecret(n)
        /\ (HoldsCertificate(n) <=> n = certCreator.info.ns) /\ ~HoldsCertificate(n)'
    BY <2>1 DEF HoldsPassword, HoldsSecret, HoldsCertificate, CertCreatorIdle
  <2> QED
    BY <1>1, <1>2, <2>3, <2>4, BalanceTypes DEF Balanced, NoneAsked, OneIf
<1> QED
  BY <1>3, <1>4

LEMMA CountedStep == TypeOK /\ HandlerInv /\ FiniteInv /\ EveryRequestCounted /\ [Next]_vars => EveryRequestCounted'
<1> SUFFICES ASSUME TypeOK, HandlerInv, FiniteInv, EveryRequestCounted, [Next]_vars,
                    FirstProcess', closed' = {}, NEW n \in Namespaces
             PROVE  Balanced(n)'
  BY CountedIsBalanced DEF EveryRequestCounted, Balanced, HoldsSecret, HoldsPassword, HoldsCertificate,
     HoldsDeletion
<1>1. closed = {} /\ Balanced(n) /\ ~RunReturns /\ ~Kill /\ ~Restart
  BY CalmBefore, CountedIsBalanced
<1>2. CASE UNCHANGED vars
  BY <1>1, <1>2, EnvironmentAsksNothing, BalanceInHands DEF vars, runtimeVars, creatorVars
<1>3. ASSUME \/ \E p \in Pods : Submit(p) \/ AddTruststore(p) \/ Unreachable(p)
             \/ \E r \in Reviews, p \in Pods, op \in Operations, dry \in BOOLEAN : Review(r, p, op, dry)
             \/ \E r \in Reviews : HangUp(r) \/ Settle(r)
             \/ ClusterStep \/ ProcessStep \/ ShutdownStep \/ Rest
      PROVE  Balanced(n)'
  <2>1. UNCHANGED <<metrics, creator, certCreator, deleter>>
    BY <1>3 DEF Submit, AddTruststore, Unreachable, Review, HangUp, Settle, ClusterStep, ProcessStep, Signal,
                TaskFails, ShutdownStep, BeginShutdown, EndShutdown, Rest, vars, runtimeVars, creatorVars
  <2>2. UNCHANGED reviews \/ \E r \in Reviews : Begins(r) \/ StopsWaiting(r)
    <3>1. ASSUME \/ \E p \in Pods : Submit(p) \/ AddTruststore(p) \/ Unreachable(p)
                 \/ ClusterStep \/ ProcessStep \/ ShutdownStep \/ Rest
          PROVE  UNCHANGED reviews
      BY <3>1 DEF Submit, AddTruststore, Unreachable, ClusterStep, ProcessStep, ShutdownStep, Rest, vars
    <3>2. ASSUME NEW r \in Reviews, NEW p \in Pods, NEW op \in Operations, NEW dry \in BOOLEAN,
                 Review(r, p, op, dry)
          PROVE  Begins(r)
      BY <3>2 DEF Review, Begins
    <3>3. ASSUME NEW r \in Reviews, HangUp(r) \/ Settle(r) PROVE StopsWaiting(r)
      BY <3>3 DEF HangUp, Settle, StopsWaiting
    <3> QED
      BY <1>3, <3>1, <3>2, <3>3
  <2> QED
    BY <1>1, <2>1, <2>2, EnvironmentAsksNothing, BalanceInHands
<1>4. ASSUME NEW r \in Reviews, Handler(r) PROVE Balanced(n)'
  BY <1>1, <1>4, HandlerKeepsBalance
<1> QED
  BY <1>1, <1>2, <1>3, <1>4, CreatorKeepsBalance, DeleterKeepsBalance, CertCreatorKeepsBalance DEF Next

LEMMA CountedInit == Init => EveryRequestCounted
<1> SUFFICES ASSUME Init, NEW n \in Namespaces PROVE Balanced(n)
  BY CountedIsBalanced
<1>1. SecretsAsked(n) = {} /\ CertificatesAsked(n) = {} /\ DeletionsAsked(n) = {}
  BY DEF Init, ValidatorInit, SecretsAsked, CertificatesAsked, DeletionsAsked, AsksDeletion, At
<1>2. Creations(n, "Secret") = 0 /\ Creations(n, "Certificate") = 0 /\ Deletions(n) = 0
  BY DEF Init, RuntimeInit, Creations, Deletions, Counted, Series, Counters
<1>3. ~HoldsSecret(n) /\ ~HoldsPassword(n) /\ ~HoldsCertificate(n) /\ ~HoldsDeletion(n)
  BY DEF Init, CreatorInit, CreatorIdle, DeleterInit, DeleterIdle, CertCreatorInit, CertCreatorIdle,
         HoldsSecret, HoldsPassword, HoldsCertificate, HoldsDeletion
<1> QED
  BY <1>1, <1>2, <1>3, FS_EmptySet DEF Balanced, OneIf

LEMMA FiniteInvEver == Spec => []FiniteInv
BY FiniteInvInit, FiniteInvStep, BasicsInvariant, PTL DEF Spec

(***************************************************************************)
(* No request that reached a worker of the first process is counted twice, *)
(* left out, or put under another namespace, for any number of pods,       *)
(* reviews and namespaces, and whatever the API server answers.            *)
(***************************************************************************)
THEOREM EveryRequestCountedEver == Spec => []EveryRequestCounted
BY CountedInit, CountedStep, FiniteInvEver, BasicsInvariant, PTL DEF Spec

-----------------------------------------------------------------------------
(***************************************************************************)
(* CountersAddUp: while nothing is disturbed, objects come and go only by  *)
(* the steps that count them.                                              *)
(***************************************************************************)
StoredSecrets(n) == Stored(n, {"ca", "password"})
StoredCertificates(n) == Stored(n, {"certificate"})

AddsUp(n) ==
    /\ Counted("Created", n, "Secret") = Counted("Deleted", n, "Secret") + Cardinality(StoredSecrets(n))
    /\ Counted("Created", n, "Certificate") = Cardinality(StoredCertificates(n))

LEMMA AddUpIsAddsUp == CountersAddUp <=> (Undisturbed => \A n \in Namespaces : AddsUp(n))
BY DEF CountersAddUp, AddsUp, StoredSecrets, StoredCertificates

LEMMA UndisturbedBefore == TypeOK /\ [Next]_vars /\ Undisturbed' => Undisturbed
<1> SUFFICES ASSUME TypeOK, [Next]_vars, Undisturbed' PROVE Undisturbed
  OBVIOUS
<1>1. FirstProcess /\ ~CtxDone
  BY CalmBefore DEF Undisturbed
<1>2. dead = {}
  BY DeadGrows DEF Undisturbed
<1> QED
  BY <1>1, <1>2 DEF Undisturbed

LEMMA StoredFinite ==
    ASSUME TypeOK, FiniteInv, NEW n \in Namespaces
    PROVE  /\ IsFiniteSet(StoredSecrets(n)) /\ Cardinality(StoredSecrets(n)) \in Nat
           /\ IsFiniteSet(StoredCertificates(n)) /\ Cardinality(StoredCertificates(n)) \in Nat
<1>1. StoredSecrets(n) \in SUBSET InStore /\ StoredCertificates(n) \in SUBSET InStore
  BY DEF StoredSecrets, StoredCertificates, Stored, InStore
<1> QED
  BY <1>1, PartFinite

LEMMA StoringAdds ==
    ASSUME TypeOK, FiniteInv, NEW n \in Namespaces, NEW i \in ObjectIds, NEW o \in Objects, Stores(i, o)
    PROVE  /\ Cardinality(StoredSecrets(n))' =
                 Cardinality(StoredSecrets(n)) + OneIf(n = i.ns /\ i.kind # "certificate")
           /\ Cardinality(StoredCertificates(n))' =
                 Cardinality(StoredCertificates(n)) + OneIf(n = i.ns /\ i.kind = "certificate")
<1>1. objects \in [ObjectIds -> Objects \cup {None}] /\ None \notin Objects
  BY ClusterAssumption DEF TypeOK, ClusterTypeOK
<1>2. \A j \in ObjectIds : Exists(j)' <=> Exists(j) \/ j = i
  BY <1>1 DEF Stores, Exists
<1>3. i \notin StoredSecrets(n) /\ i \notin StoredCertificates(n)
  BY DEF Stores, StoredSecrets, StoredCertificates, Stored
<1>4. i.kind \in {"ca", "password", "certificate"}
  OBVIOUS
<1>5. StoredSecrets(n)' = IF n = i.ns /\ i.kind # "certificate" THEN StoredSecrets(n) \cup {i} ELSE StoredSecrets(n)
  BY <1>2, <1>4 DEF StoredSecrets, Stored
<1>6. StoredCertificates(n)' =
         IF n = i.ns /\ i.kind = "certificate" THEN StoredCertificates(n) \cup {i} ELSE StoredCertificates(n)
  BY <1>2, <1>4 DEF StoredCertificates, Stored
<1>7. /\ Cardinality(StoredSecrets(n) \cup {i}) = Cardinality(StoredSecrets(n)) + 1
      /\ Cardinality(StoredCertificates(n) \cup {i}) = Cardinality(StoredCertificates(n)) + 1
  BY <1>3, StoredFinite, OneMore
<1> QED
  BY <1>5, <1>6, <1>7, StoredFinite DEF OneIf

LEMMA RemovingTakes ==
    ASSUME TypeOK, FiniteInv, NEW n \in Namespaces, NEW i \in ObjectIds, i.kind = "ca", Removes(i)
    PROVE  /\ Cardinality(StoredSecrets(n)) = Cardinality(StoredSecrets(n))' + OneIf(n = i.ns)
           /\ Cardinality(StoredSecrets(n))' \in Nat
           /\ Cardinality(StoredCertificates(n))' = Cardinality(StoredCertificates(n))
<1>1. objects \in [ObjectIds -> Objects \cup {None}]
  BY DEF TypeOK, ClusterTypeOK
<1>2. \A j \in ObjectIds : Exists(j)' <=> Exists(j) /\ j # i
  BY <1>1 DEF Removes, Exists
<1>3. StoredCertificates(n)' = StoredCertificates(n)
  BY <1>2 DEF StoredCertificates, Stored
<1>4. CASE n = i.ns
  <2>1. i \in StoredSecrets(n) /\ StoredSecrets(n)' = StoredSecrets(n) \ {i}
    BY <1>2, <1>4 DEF StoredSecrets, Stored, Removes
  <2> QED
    BY <1>3, <1>4, <2>1, StoredFinite, OneLess DEF OneIf
<1>5. CASE n # i.ns
  <2>1. StoredSecrets(n)' = StoredSecrets(n)
    BY <1>2, <1>5 DEF StoredSecrets, Stored
  <2> QED
    BY <1>3, <1>5, <2>1, StoredFinite DEF OneIf
<1> QED
  BY <1>4, <1>5

LEMMA AddsUpFrame ==
    ASSUME UNCHANGED objects, NEW n \in Namespaces, AddsUp(n),
           \A c \in {"Created", "Deleted"}, k \in Kinds : Counted(c, n, k)' = Counted(c, n, k)
    PROVE  AddsUp(n)'
<1>1. UNCHANGED <<StoredSecrets(n), StoredCertificates(n)>>
  BY DEF StoredSecrets, StoredCertificates, Stored, Exists
<1> QED
  BY <1>1 DEF AddsUp, Kinds

LEMMA AddsUpCounts ==
    ASSUME TypeOK, UNCHANGED objects, NEW n \in Namespaces, AddsUp(n),
           NEW c \in Counters \ {"Created", "Deleted"}, NEW m \in Namespaces, NEW k \in Kinds, Count(c, m, k)
    PROVE  AddsUp(n)'
<1>1. ASSUME NEW d \in {"Created", "Deleted"}, NEW l \in Kinds
      PROVE  Counted(d, n, l)' = Counted(d, n, l)
  <2>1. d \in Counters /\ d # c
    BY DEF Counters
  <2>2. Counted(d, n, l)' = Counted(d, n, l) + OneIf(d = c /\ n = m /\ l = k)
    BY <2>1, CountMovesOne
  <2>3. OneIf(d = c /\ n = m /\ l = k) = 0
    BY <2>1 DEF OneIf
  <2>4. Counted(d, n, l) \in Nat
    BY <2>1, CountsAreNumbers
  <2> QED
    BY <2>2, <2>3, <2>4
<1> QED
  BY <1>1, AddsUpFrame

(***************************************************************************)
(* Undisturbed, a call neither fails nor is cut off: of the branches of    *)
(* the three workers, only those that the API server answered remain.      *)
(***************************************************************************)
LEMMA CreatorAddsUp ==
    ASSUME TypeOK, CreatorInv, FiniteInv, Undisturbed, NEW n \in Namespaces, AddsUp(n), SecretWorker
    PROVE  AddsUp(n)'
<1>1. CASE CreatorExits
  BY <1>1, AddsUpFrame DEF CreatorExits, Counted
<1>2. CASE CreateFindsSecret
  BY <1>2, RequestTypes, AddsUpCounts DEF CreateFindsSecret, TypeOK, CreatorTypeOK, Counters, Kinds
<1>3. CASE CreateSucceeds
  <2>1. /\ creator.req.id \in ObjectIds /\ creator.req.id.ns \in Namespaces
        /\ creator.req.id.kind # "certificate" /\ NewSecret(creator.req) \in Objects
    BY <1>3, RequestTypes DEF CreateSucceeds, CreatorInv, TypeOK, CreatorTypeOK
  <2>2. \A d \in Counters, l \in Kinds : Counted(d, n, l)' =
           Counted(d, n, l) + OneIf(d = "Created" /\ n = creator.req.id.ns /\ l = "Secret")
    BY <1>3, <2>1, CountMovesOne DEF CreateSucceeds, Counters, Kinds
  <2>3. /\ Counted("Created", n, "Secret")' = Counted("Created", n, "Secret") + OneIf(n = creator.req.id.ns)
        /\ Counted("Created", n, "Certificate")' = Counted("Created", n, "Certificate")
        /\ Counted("Deleted", n, "Secret")' = Counted("Deleted", n, "Secret")
    BY <2>2, CountsAreNumbers DEF Counters, Kinds, OneIf
  <2>4. /\ Cardinality(StoredSecrets(n))' = Cardinality(StoredSecrets(n)) + OneIf(n = creator.req.id.ns)
        /\ Cardinality(StoredCertificates(n))' = Cardinality(StoredCertificates(n))
    BY <1>3, <2>1, StoringAdds, StoredFinite DEF CreateSucceeds, OneIf
  <2> QED
    BY <2>3, <2>4, CountsAreNumbers, StoredFinite DEF AddsUp, Counters, Kinds, OneIf
<1> QED
  BY <1>1, <1>2, <1>3 DEF SecretWorker, CreatorStep, CreateFails, Undisturbed

LEMMA DeleterAddsUp ==
    ASSUME TypeOK, NothingUnasked, FiniteInv, Undisturbed, NEW n \in Namespaces, AddsUp(n), DeleteWorker
    PROVE  AddsUp(n)'
<1>1. CASE DeleterExits
  BY <1>1, AddsUpFrame DEF DeleterExits, Counted
<1>2. CASE DeleteFindsNothing
  BY <1>2, AddsUpCounts DEF DeleteFindsNothing, TypeOK, DeleterTypeOK, Counters, Kinds
<1>3. CASE DeleteSucceeds
  <2>1. deleter.id \in ObjectIds /\ deleter.id.ns \in Namespaces /\ deleter.id.kind = "ca"
    BY <1>3 DEF DeleteSucceeds, NothingUnasked, DeletionWanted, DeletedSecret, SecretName, TypeOK, DeleterTypeOK
  <2>2. \A d \in Counters, l \in Kinds : Counted(d, n, l)' =
           Counted(d, n, l) + OneIf(d = "Deleted" /\ n = deleter.id.ns /\ l = "Secret")
    BY <1>3, <2>1, CountMovesOne DEF DeleteSucceeds, Counters, Kinds
  <2>3. /\ Counted("Created", n, "Secret")' = Counted("Created", n, "Secret")
        /\ Counted("Created", n, "Certificate")' = Counted("Created", n, "Certificate")
        /\ Counted("Deleted", n, "Secret")' = Counted("Deleted", n, "Secret") + OneIf(n = deleter.id.ns)
    BY <2>2, CountsAreNumbers DEF Counters, Kinds, OneIf
  <2>4. /\ Cardinality(StoredSecrets(n)) = Cardinality(StoredSecrets(n))' + OneIf(n = deleter.id.ns)
        /\ Cardinality(StoredSecrets(n))' \in Nat
        /\ Cardinality(StoredCertificates(n))' = Cardinality(StoredCertificates(n))
    BY <1>3, <2>1, RemovingTakes DEF DeleteSucceeds
  <2> QED
    BY <2>3, <2>4, CountsAreNumbers, StoredFinite DEF AddsUp, Counters, Kinds, OneIf
<1> QED
  BY <1>1, <1>2, <1>3 DEF DeleteWorker, DeleterStep, DeleteRefused, DeleteInterrupted, Undisturbed

LEMMA CertCreatorAddsUp ==
    ASSUME TypeOK, FiniteInv, Undisturbed, NEW n \in Namespaces, AddsUp(n), CertWorker
    PROVE  AddsUp(n)'
<1>1. CASE CertCreatorExits \/ SendPassword \/ SendPanics
  BY <1>1, AddsUpFrame DEF CertCreatorExits, SendPassword, SendPanics, Counted
<1>2. CASE CertificateFound
  BY <1>2, AddsUpCounts DEF CertificateFound, TypeOK, CertCreatorTypeOK, Infos, Counters, Kinds
<1>3. CASE CertificateCreated
  <2> DEFINE id == CertificateId(certCreator.info)
  <2>1. certCreator.info \in Infos /\ certCreator.info.ns \in Namespaces
    BY <1>3 DEF CertificateCreated, TypeOK, CertCreatorTypeOK, Infos
  <2>2. id \in ObjectIds /\ NewCertificate(certCreator.info) \in Objects
    BY <2>1, RequestTypes
  <2>3. id.ns = certCreator.info.ns /\ id.kind = "certificate"
    BY DEF CertificateId, CertificateName
  <2>4. \A d \in Counters, l \in Kinds : Counted(d, n, l)' =
           Counted(d, n, l) + OneIf(d = "Created" /\ n = certCreator.info.ns /\ l = "Certificate")
    BY <1>3, <2>1, CountMovesOne DEF CertificateCreated, Counters, Kinds
  <2>5. /\ Counted("Created", n, "Secret")' = Counted("Created", n, "Secret")
        /\ Counted("Created", n, "Certificate")' =
              Counted("Created", n, "Certificate") + OneIf(n = certCreator.info.ns)
        /\ Counted("Deleted", n, "Secret")' = Counted("Deleted", n, "Secret")
    BY <2>4, CountsAreNumbers DEF Counters, Kinds, OneIf
  <2>6. Stores(id, NewCertificate(certCreator.info))
    BY <1>3 DEF CertificateCreated
  <2> HIDE DEF id
  <2>7. /\ Cardinality(StoredSecrets(n))' = Cardinality(StoredSecrets(n))
        /\ Cardinality(StoredCertificates(n))' =
              Cardinality(StoredCertificates(n)) + OneIf(n = certCreator.info.ns)
    BY <2>2, <2>3, <2>6, StoringAdds, StoredFinite DEF OneIf
  <2> QED
    BY <2>5, <2>7, CountsAreNumbers, StoredFinite DEF AddsUp, Counters, Kinds, OneIf
<1> QED
  BY <1>1, <1>2, <1>3 DEF CertWorker, CertCreatorStep, CertificateRefused, CertificateInterrupted, Undisturbed

LEMMA AddUpStep ==
    TypeOK /\ NothingUnasked /\ CreatorInv /\ FiniteInv /\ CountersAddUp /\ [Next]_vars => CountersAddUp'
<1> SUFFICES ASSUME TypeOK, NothingUnasked, CreatorInv, FiniteInv, CountersAddUp, [Next]_vars,
                    Undisturbed', NEW n \in Namespaces
             PROVE  AddsUp(n)'
  BY AddUpIsAddsUp DEF CountersAddUp, AddsUp, StoredSecrets, StoredCertificates
<1>1. Undisturbed /\ AddsUp(n)
  BY UndisturbedBefore, AddUpIsAddsUp
<1>2. ~RunReturns /\ ~Kill /\ ~Restart
  BY CalmBefore DEF Undisturbed
<1>3. CASE UNCHANGED <<objects, metrics>>
  BY <1>1, <1>3, AddsUpFrame DEF Counted
<1>4. ASSUME \/ \E p \in Pods : Submit(p) \/ AddTruststore(p) \/ Unreachable(p)
             \/ \E r \in Reviews, p \in Pods, op \in Operations, dry \in BOOLEAN : Review(r, p, op, dry)
             \/ \E r \in Reviews : HangUp(r) \/ Settle(r) \/ Handler(r)
             \/ ProcessStep \/ ShutdownStep \/ Rest
      PROVE  UNCHANGED <<objects, metrics>>
  BY <1>4 DEF Submit, AddTruststore, Unreachable, Review, HangUp, Settle, Handler, ProcessStep, Signal, TaskFails,
              ShutdownStep, BeginShutdown, EndShutdown, Rest, vars, runtimeVars, clusterVars
<1>5. CASE ClusterStep
  <2>1. \A i : ~CollectGarbage(i)
    BY <1>1 DEF CollectGarbage, Undisturbed
  <2> QED
    BY <1>3, <1>5, <2>1 DEF ClusterStep, OwnerDeleted, Reparent, IssueTruststore, RotateCA, runtimeVars
<1>6. UNCHANGED vars => UNCHANGED <<objects, metrics>>
  BY DEF vars, clusterVars, runtimeVars
<1> QED
  BY <1>1, <1>2, <1>3, <1>4, <1>5, <1>6, CreatorAddsUp, DeleterAddsUp, CertCreatorAddsUp DEF Next

LEMMA AddUpInit == Init => CountersAddUp
<1> SUFFICES ASSUME Init, NEW n \in Namespaces PROVE AddsUp(n)
  BY AddUpIsAddsUp
<1>1. StoredSecrets(n) = {} /\ StoredCertificates(n) = {}
  BY DEF Init, ClusterInit, StoredSecrets, StoredCertificates, Stored, Exists
<1>2. \A c \in Counters, k \in Kinds : Counted(c, n, k) = 0
  BY DEF Init, RuntimeInit, Counted, Series, Kinds
<1> QED
  BY <1>1, <1>2, FS_EmptySet DEF AddsUp, Counters, Kinds

(***************************************************************************)
(* While no call fails, no owner goes and nothing stops the process, the   *)
(* counters are the number of Secrets and Certificates stored, for every   *)
(* number of pods and reviews and whatever names they share.               *)
(***************************************************************************)
THEOREM CountersAddUpEver == Spec => []CountersAddUp
BY AddUpInit, AddUpStep, FiniteInvEver, CreatorInvEver, BasicsInvariant, PTL DEF Spec
=============================================================================
