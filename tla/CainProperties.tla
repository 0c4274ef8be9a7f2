--------------------------- MODULE CainProperties ---------------------------
(***************************************************************************)
(* What cain promises, and what its documentation says that it does not    *)
(* keep.                                                                   *)
(***************************************************************************)
EXTENDS Cain

Unmoved(p) == root[p] = Manifest[p].root
Live(p) == pods[p].st = "live"

\* a CREATE that the validating webhook has to provide for, past rootOwner
Provides(r) ==
    /\ reviews[r].op = "CREATE"
    /\ ~reviews[r].dry
    /\ reviews[r].root # None
    /\ PodOf(r).enabled

\* a DELETE whose deletion request the deleter took
AsksDeletion(r) ==
    /\ reviews[r].op = "DELETE"
    /\ ~reviews[r].dry
    /\ At(r, "allowed")
    /\ PodOf(r).enabled
    /\ Ownerless(reviews[r].pod)

-----------------------------------------------------------------------------
(***************************************************************************)
(* Every Secret, every Certificate and everything the workers hold comes   *)
(* from a CREATE review of a pod that asked for injection, and not from a  *)
(* dry run: with that pod's namespace, its root owner's name and UID, and  *)
(* the data for it.  The request crosses one channel or two on its way     *)
(* (validator.go:140-158, certcreator.go:116-123), and the worker may act  *)
(* long after the review ended.  cert-manager puts a Certificate and a     *)
(* password together that may stem from two pods of one root: even so the  *)
(* truststore's password is that of one of its JVM pods.                   *)
(***************************************************************************)
Wanted(id, owner, data) ==
    \E r \in Reviews :
        /\ Provides(r)
        /\ owner = reviews[r].root.uid
        /\ \/ id = SecretRequest(r).id /\ data \in Bundles
           \/ /\ PodOf(r).jvm
              /\ \/ id = PasswordRequest(CertInfo(r)).id /\ data = Base64(PodOf(r).password)
                 \/ id = CertificateId(CertInfo(r)) /\ data = None

InfoWanted(info) ==
    \E r \in Reviews : Provides(r) /\ PodOf(r).jvm /\ info = CertInfo(r)

TruststoreWanted(t, password) ==
    \E r \in Reviews :
        /\ Provides(r)
        /\ PodOf(r).jvm
        /\ t = [ns |-> PodOf(r).ns, base |-> reviews[r].root.name]
        /\ password = Base64(PodOf(r).password)

DeletionWanted(id) == \E r \in Reviews : AsksDeletion(r) /\ id = DeletedSecret(r)

NothingUnasked ==
    /\ \A i \in ObjectIds : Exists(i) => Wanted(i, objects[i].owner, objects[i].data)
    /\ creator.pc = "call" => Wanted(creator.req.id, creator.req.owner, creator.req.data)
    /\ certCreator.pc \in {"send", "call"} => InfoWanted(certCreator.info)
    /\ deleter.pc = "call" => DeletionWanted(deleter.id)
    /\ \A t \in TruststoreIds : truststores[t] # None => TruststoreWanted(t, truststores[t])

(***************************************************************************)
(* Where the Secret or Certificate a pod waits for may be: it exists, a    *)
(* worker holds the request for it, the request failed and was logged, a   *)
(* pod without an owner and with that name was deleted, or an owner that a *)
(* request for it named was deleted.                                       *)
(***************************************************************************)
Orphaned(id) ==
    \E r \in Reviews :
        /\ Provides(r)
        /\ id.ns = PodOf(r).ns /\ id.base = reviews[r].root.name
        /\ reviews[r].root.uid \in dead

Accounted(id) == \/ Exists(id)
                 \/ id \in InCreator \cup InCertCreator
                 \/ id \in dropped
                 \/ DeletionWanted(id)
                 \/ Orphaned(id)

(***************************************************************************)
(* A pod that was let in with a volume of an injected Secret is never      *)
(* forgotten: that Secret is accounted for, and so are the Certificate and *)
(* the password behind its truststore, whatever failed and however often   *)
(* the process was started again.  The two webhooks resolve the root owner *)
(* separately (mutator.go:313, 393 and validator.go:131), so it holds of   *)
(* pods whose owners were left alone in between.                           *)
(***************************************************************************)
AdmittedIsProvisioned ==
    \A p \in Pods : Live(p) /\ Unmoved(p) =>
        /\ pods[p].ca # None => Accounted(SecretName(Manifest[p].ns, pods[p].ca))
        /\ pods[p].truststore # None =>
              /\ Accounted(CertificateName(Manifest[p].ns, pods[p].truststore))
              /\ Accounted(TruststorePasswordSecretName(Manifest[p].ns, pods[p].truststore))

(***************************************************************************)
(* The same as a contract: Cain implements Provisioning, whose actions say *)
(* how an obligation may arise and what may become of it.                  *)
(***************************************************************************)
AwaitedBy(p) ==
    (IF pods[p].ca = None THEN {} ELSE {SecretName(Manifest[p].ns, pods[p].ca)}) \cup
    (IF pods[p].truststore = None THEN {}
     ELSE {CertificateName(Manifest[p].ns, pods[p].truststore),
           TruststorePasswordSecretName(Manifest[p].ns, pods[p].truststore)})
Owed == UNION {AwaitedBy(p) : p \in {q \in Pods : Live(q) /\ Unmoved(q)}}
InHand == InCreator \cup InCertCreator
InStore == {i \in ObjectIds : Exists(i)}
Recalled == {i \in ObjectIds : DeletionWanted(i) \/ Orphaned(i)}

P == INSTANCE Provisioning WITH
        owed <- Owed, pending <- InHand, stored <- InStore, logged <- dropped, recalled <- Recalled

\* every step of every goroutine, fault and restart is one of the contract's, or none of its business
KeepsContract == P!Spec

(***************************************************************************)
(* The mutating webhook next to everything else: whatever fails, moves or  *)
(* ends meanwhile, the volumes of every pod are named as module Injection  *)
(* says (mutator.go:313, 393), once each and after the root of the moment. *)
(***************************************************************************)
Stage(p) == CASE pods[p].st = "new" -> "open"
              [] pods[p].st = "mutating" -> "half"
              [] OTHER -> "closed"

I == INSTANCE Injection WITH
        root <- [p \in Pods |-> root[p].name],
        ca <- [p \in Pods |-> pods[p].ca],
        truststore <- [p \in Pods |-> pods[p].truststore],
        stage <- [p \in Pods |-> Stage(p)],
        moved <- [p \in Pods |-> ~Unmoved(p)]

KeepsNames == I!Spec

(***************************************************************************)
(* A Certificate's keystore refers to the Secret with the password: once   *)
(* the Certificate exists that Secret is accounted for, although another   *)
(* goroutine creates it (certcreator.go:116-159).                          *)
(***************************************************************************)
CertificateHasPassword ==
    \A i \in ObjectIds : i.kind = "certificate" /\ Exists(i) =>
        Accounted(TruststorePasswordSecretName(i.ns, i.base))

(***************************************************************************)
(* The CA bundle is read once, when the process starts (cain.go:327), and  *)
(* a request carries it through a channel and a worker.  Across rotations  *)
(* of the default CA and restarts, every CA Secret is created with the     *)
(* bundle of the process that creates it, never with one of a process      *)
(* before it.                                                              *)
(***************************************************************************)
CreatedWithBundle ==
    [][\A i \in ObjectIds : i.kind = "ca" /\ ~Exists(i) /\ Exists(i)' => objects'[i].data = bundle]_vars

(***************************************************************************)
(* Only the garbage collector and the deleter remove anything, and the     *)
(* deleter no more than the CA Secret of a pod without an owner for which  *)
(* a DELETE that is not a dry run was let through (validator.go:106-114).  *)
(***************************************************************************)
OnlyAskedDeletions ==
    [][\A i \in ObjectIds : Exists(i) /\ ~Exists(i)' =>
          \/ objects[i].owner \in dead
          \/ i.kind = "ca" /\ DeletionWanted(i)]_vars

(***************************************************************************)
(* Every request a worker took off its channel ends up in exactly one      *)
(* counter, or is the one in hand: whatever the API server answered, and   *)
(* by whichever branch of the three Start loops it went (creator.go:96,    *)
(* deleter.go:82, certcreator.go:160).  A JVM pod asks for two Secrets, by *)
(* way of two workers.  It holds of the first process, which counted all   *)
(* that was ever asked, until channels are closed.                         *)
(***************************************************************************)
SecretsAsked(n) ==
    {r \in Reviews : Provides(r) /\ PodOf(r).ns = n /\ reviews[r].pc \in {"sendCert", "allowed"}}
CertificatesAsked(n) ==
    {r \in Reviews : Provides(r) /\ PodOf(r).ns = n /\ At(r, "allowed") /\ PodOf(r).jvm}
DeletionsAsked(n) == {r \in Reviews : AsksDeletion(r) /\ PodOf(r).ns = n}

Counted(counter, n, kind) == metrics[<<counter, n, kind>>]
Creations(n, kind) ==
    Counted("Created", n, kind) + Counted("AlreadyExists", n, kind) + Counted("CreateError", n, kind)
Deletions(n) ==
    Counted("Deleted", n, "Secret") + Counted("NotFound", n, "Secret") + Counted("DeleteError", n, "Secret")
OneIf(busy) == IF busy THEN 1 ELSE 0

FirstProcess == process = "up" /\ restarts = 0

EveryRequestCounted ==
    FirstProcess /\ closed = {} => \A n \in Namespaces :
        /\ Creations(n, "Secret") + OneIf(creator.pc = "call" /\ creator.req.id.ns = n)
               + OneIf(certCreator.pc = "send" /\ certCreator.info.ns = n)
           = Cardinality(SecretsAsked(n)) + Cardinality(CertificatesAsked(n))
        /\ Creations(n, "Certificate")
               + OneIf(certCreator.pc \in {"send", "call"} /\ certCreator.info.ns = n)
           = Cardinality(CertificatesAsked(n))
        /\ Deletions(n) + OneIf(deleter.pc = "call" /\ deleter.id.ns = n)
           = Cardinality(DeletionsAsked(n))

(***************************************************************************)
(* While no call fails, no owner goes and nothing was told to stop, the    *)
(* counters tell what is in the cluster: those created minus those deleted *)
(* are the ones that exist (prometheus.go:82-104).                         *)
(***************************************************************************)
Stored(n, kinds) == {i \in ObjectIds : i.ns = n /\ i.kind \in kinds /\ Exists(i)}
Undisturbed == "api" \notin Faults /\ dead = {} /\ ~CtxDone /\ FirstProcess

CountersAddUp ==
    Undisturbed => \A n \in Namespaces :
        /\ Counted("Created", n, "Secret")
           = Counted("Deleted", n, "Secret") + Cardinality(Stored(n, {"ca", "password"}))
        /\ Counted("Created", n, "Certificate") = Cardinality(Stored(n, {"certificate"}))

-----------------------------------------------------------------------------
(***************************************************************************)
(* The channels are closed one after the other by one of many handlers,    *)
(* while others send on them and workers leave their loops or panic.  In   *)
(* between nobody is stuck: a worker is gone only if its channel is closed *)
(* or about to be, so a sender finds a receiver or panics; once one        *)
(* channel is closed somebody closes the rest; and nobody else closes them *)
(* first, which would be a panic with workers left waiting                 *)
(* (validator.go:63-70, certcreator.go:116).                               *)
(***************************************************************************)
Closes(r) == CASE At(r, "closeCert") -> {"cert", "delete"}
               [] At(r, "closeDelete") -> {"delete"}
               [] OTHER -> {}
ClosedSoon == closed \cup UNION {Closes(r) : r \in Reviews}

NobodyWaitsInVain ==
    process = "up" =>
        /\ creator.pc = "exit" => "secret" \in closed
        /\ certCreator.pc \in {"exit", "panicked"} => "cert" \in ClosedSoon
        /\ deleter.pc = "exit" => "delete" \in closed
        /\ closed # {} => ClosedSoon = Channels
        /\ \A r \in Reviews : /\ Closes(r) \cap closed = {}
                              /\ \A s \in Reviews \ {r} : Closes(r) \cap Closes(s) = {}

(***************************************************************************)
(* Every review the API server sends is answered, or its connection is     *)
(* dropped: a handler waits for a worker on an unbuffered channel, and     *)
(* channels may be closed under it (validator.go:63-70, 110, 141, 158).    *)
(***************************************************************************)
EveryReviewAnswered == \A r \in Reviews : Running(r) ~> ~Running(r)

(***************************************************************************)
(* Once a cancelled request starts to close channels, all three workers    *)
(* stop, in whatever state they were (validator.go:65-68).                 *)
(***************************************************************************)
DownstreamStops == closed # {} ~> (process = "down" \/ (closed = Channels /\ WorkersDone))

(***************************************************************************)
(* A process that was told to stop does so once a request it should have   *)
(* answered was cancelled: nothing else lets the workers leave their loops *)
(* (cain.go:204-275, validator.go:63-70).  Handlers that are still at work *)
(* and channels that close under them do not keep it.                      *)
(***************************************************************************)
CancelledRequestLetsStop == CtxDone /\ closed # {} ~> process = "down"

(***************************************************************************)
(* While the API server answers, a pod that was let in has its Secret in   *)
(* the end, unless it is deleted, or a pod without owners of that name is; *)
(* and a JVM pod has its truststore, which takes two workers and           *)
(* cert-manager.  A closed channel may cost it one of the requests, and    *)
(* through the panic of the certificate creator also the pool's context;   *)
(* then the log tells.                                                     *)
(***************************************************************************)
EventuallyProvisioned ==
    \A p \in Pods, b \in Names :
        LET n == Manifest[p].ns
        IN  /\ Live(p) /\ pods[p].ca = b ~>
                  \/ ~Live(p)
                  \/ Exists(SecretName(n, b)) \/ DeletionWanted(SecretName(n, b))
                  \/ SecretName(n, b) \in dropped
            /\ Live(p) /\ pods[p].truststore = b ~>
                  \/ ~Live(p)
                  \/ truststores[[ns |-> n, base |-> b]] # None
                  \/ {CertificateName(n, b), TruststorePasswordSecretName(n, b)} \cap dropped # {}

-----------------------------------------------------------------------------
(***************************************************************************)
(* Statements of the repository's comments, help texts and documentation   *)
(* that the code does not keep.  Each is the property of a run that ends   *)
(* in a counterexample.                                                    *)
(***************************************************************************)

(***************************************************************************)
(* A process that is told to stop, or one of whose goroutines failed,      *)
(* stops: "context pool for shutting down the various goroutines"          *)
(* (cain.go:204).  The workers range over channels that only a cancelled   *)
(* request closes.                                                         *)
(***************************************************************************)
ShutdownCompletes == CtxDone ~> process = "down"

(***************************************************************************)
(* The channels are closed "to signal downstream goroutines to stop"       *)
(* (validator.go:61-65), that is, when the process stops.  The context     *)
(* Validate looks at is one request's.                                     *)
(***************************************************************************)
ClosedOnlyOnShutdown == closed # {} => CtxDone

(***************************************************************************)
(* "Number of times a resource in a namespace already exists"              *)
(* (prometheus.go:29): the counter for Certificates moves only when one    *)
(* exists.                                                                 *)
(***************************************************************************)
ExistsCountsExisting ==
    [][\A n \in Namespaces :
          metrics[<<"AlreadyExists", n, "Certificate">>]' > metrics[<<"AlreadyExists", n, "Certificate">>]
          => \E i \in ObjectIds : i.ns = n /\ i.kind = "certificate" /\ Exists(i)]_vars

(***************************************************************************)
(* The necessary Secret is created "if not already present in the          *)
(* namespace" (README.md:17-19): when nothing is under way and no call     *)
(* failed, a live pod that nobody asked to delete has it.                  *)
(***************************************************************************)
LivePodKeepsSecret ==
    AtRest => \A p \in Pods :
        /\ Live(p) /\ Unmoved(p) /\ pods[p].ca # None
        /\ ~\E r \in Reviews : reviews[r].op = "DELETE" /\ reviews[r].pod = p
        => Exists(SecretName(Manifest[p].ns, pods[p].ca))

(***************************************************************************)
(* The name in a deletion request is that of one Secret, "unique within    *)
(* the namespace" (deleter.go:39): the Secret of a pod without an owner.   *)
(* So the deleter never takes a Secret that belongs to an owner.           *)
(***************************************************************************)
DeleterSparesOwnedSecrets ==
    [][\A i \in ObjectIds : Exists(i) /\ ~Exists(i)' =>
          objects[i].owner \in dead \cup {NoUid}]_vars

(***************************************************************************)
(* "TruststorePassword is the password that should be used to encrypt the  *)
(* truststore" (certcreator.go:55): the truststore a live pod mounts can   *)
(* be opened with the password the pod is started with.                    *)
(***************************************************************************)
TruststorePasswordUsed ==
    \A p \in Pods : Live(p) /\ pods[p].truststore # None =>
        truststores[[ns |-> Manifest[p].ns, base |-> pods[p].truststore]] \in {None, Manifest[p].password}
=============================================================================
